---- MODULE Spec2Model ----
(***************************************************************************)
(* A model of the bulk-crop application's pixel algorithms (src/App.tsx):  *)
(* the background classifier and the connected-component detector          *)
(* (detectObjectsFromImage) and the border-seeded background removal with  *)
(* edge feathering (removeImageBackground).                                *)
(*                                                                         *)
(* A pixel buffer (the canvas ImageData) is a function from the pixel      *)
(* number i = y * width + x to a record [r, g, b, a]; the code's byte      *)
(* offset i * 4 + c is the field c of pixel i.  The `url` of an ImageFile  *)
(* stands for the pixels it decodes to.  A colour string is a sequence of  *)
(* one-character strings.                                                  *)
(*                                                                         *)
(* Each function's local state is one record variable (det, cls, rem, exp, *)
(* pv, ed, app), so that each specification leaves the others' state       *)
(* alone.                                                                  *)
(*                                                                         *)
(* The export (handleDownload) is modelled with the environment's answers  *)
(* as choices: an image may fail to load, a canvas may give no context, an *)
(* encoding may give no blob.  A file name is a sequence of strings; crop  *)
(* coordinates are counted in half pixels, the initial crop of an upload   *)
(* being min(width, height) * 0.5 wide.                                    *)
(*                                                                         *)
(* The crop previews (src/types.ts, src/unnamed/part_001) compute their    *)
(* scale and translation in doubles, which are modelled bit for bit.       *)
(*                                                                         *)
(* The editing of one crop (Controls.handleInputChange in                  *)
(* src/unnamed/part_000, CropEditor.handleInteractionMove in               *)
(* src/components/CropEditor.tsx) is modelled on whole pixels.  The        *)
(* session (the state of App and the handlers that run between its awaits) *)
(* is modelled with the geometry of a crop reduced to a tag.               *)
(***************************************************************************)
EXTENDS Integers, Sequences, FiniteSets, TLC

VARIABLES det, cls, rem, exp, pv, ed, app

vars == <<det, cls, rem, exp, pv, ed, app>>

(***************************************************************************)
(* Bounds of the model.                                                    *)
(***************************************************************************)
\* Exhaustive two-valued images of TinyW x TinyH pixels for the detector.
TinyW == 3
TinyH == 2
\* Side of the square images that hold two L-shaped regions.
BigDim == 9
\* The spec's example: two BlockSize x BlockSize blocks, 1..MaxGap apart.
BlockSize == 10
MaxGap == 2
\* Background removal: strips of 1..MaxStrip pixels over the whole palette, and
\* square images of side RingDim made of a border, a ring inside it and a centre.
MaxStrip == 3
RingDim == 5
\* Export: up to MaxImages images and MaxCrops crops, and at most MaxFailures
\* failing items in one export.
MaxImages == 2
MaxCrops == 2
MaxFailures == 2
\* Number of edits of a crop: values typed and drags begun.
MaxEdits == 2
\* Session: the instants of the clock are 0..MaxNow, and an image goes
\* through at most MaxRemovals background removals.
MaxNow == 1
MaxRemovals == 1

(***************************************************************************)
(* Helpers.                                                                *)
(***************************************************************************)
Min(a, b) == IF a < b THEN a ELSE b
Max(a, b) == IF a > b THEN a ELSE b

Pixel(r, g, b, a) == [r |-> r, g |-> g, b |-> b, a |-> a]

\* An ImageFile whose url decodes to `pixels`.
ImageFile(id, width, height, pixels) ==
    [id |-> id, name |-> id, url |-> pixels, width |-> width, height |-> height]

(***************************************************************************)
(* Numbers (src/types.ts, src/unnamed/part_001): the preview geometry is   *)
(* computed in IEEE 754 doubles.  A double is held exactly, as a sign and  *)
(* a magnitude counted in units of 2^-FracBits; the magnitude is a binary  *)
(* numeral, a sequence of bits with the least significant first.  Every    *)
(* operation computes the exact result and rounds it to SignificandBits    *)
(* bits, to nearest and to even on a tie.                                  *)
(***************************************************************************)
SignificandBits == 53
FracBits == 80

RECURSIVE NatBits(_)
NatBits(n) == IF n = 0 THEN <<>> ELSE <<n % 2>> \o NatBits(n \div 2)

Zeros(n) == [i \in 1..n |-> 0]

\* The numeral without its leading zeros.
Trim(a) ==
    LET ones == { i \in 1..Len(a) : a[i] = 1 }
    IN  IF ones = {} THEN <<>>
        ELSE SubSeq(a, 1, CHOOSE i \in ones : \A j \in (i + 1)..Len(a) : a[j] = 0)

\* Sums, differences and products are computed limb by limb, a limb being
\* LimbBits bits of the numeral.
LimbBits == 15

RECURSIVE Pow2(_)
Pow2(n) == IF n = 0 THEN 1 ELSE 2 * Pow2(n - 1)

LimbBase == Pow2(LimbBits)

BitAt(a, i) == IF i <= Len(a) THEN a[i] ELSE 0

RECURSIVE LimbAt(_, _, _)
LimbAt(a, j, t) ==
    IF t = LimbBits THEN 0
    ELSE BitAt(a, LimbBits * (j - 1) + t + 1) + 2 * LimbAt(a, j, t + 1)

Limbs(a, n) == [j \in 1..n |-> LimbAt(a, j, 0)]

LimbCount(a) == (Len(a) + LimbBits - 1) \div LimbBits

Bits(limbs) ==
    Trim([i \in 1..(LimbBits * Len(limbs)) |->
            (limbs[(i - 1) \div LimbBits + 1] \div Pow2((i - 1) % LimbBits)) % 2])

RECURSIVE LimbsAdd(_, _, _)
LimbsAdd(a, b, carry) ==
    IF a = <<>> THEN (IF carry = 0 THEN <<>> ELSE <<carry>>)
    ELSE LET sum == Head(a) + Head(b) + carry
         IN  <<sum % LimbBase>> \o LimbsAdd(Tail(a), Tail(b), sum \div LimbBase)

\* a - b - borrow, for a >= b + borrow.
RECURSIVE LimbsSub(_, _, _)
LimbsSub(a, b, borrow) ==
    IF a = <<>> THEN <<>>
    ELSE LET diff == Head(a) - Head(b) - borrow
         IN  <<diff % LimbBase>> \o LimbsSub(Tail(a), Tail(b), IF diff < 0 THEN 1 ELSE 0)

\* a * c + carry, for a natural c < LimbBase.
RECURSIVE LimbsTimes(_, _, _)
LimbsTimes(a, c, carry) ==
    IF a = <<>> THEN (IF carry = 0 THEN <<>> ELSE <<carry>>)
    ELSE LET sum == Head(a) * c + carry
         IN  <<sum % LimbBase>> \o LimbsTimes(Tail(a), c, sum \div LimbBase)

BitsAdd(a, b) ==
    LET n == Max(LimbCount(a), LimbCount(b))
    IN  Bits(LimbsAdd(Limbs(a, n), Limbs(b, n), 0))

BitsSub(a, b) ==
    LET n == Max(LimbCount(a), LimbCount(b))
    IN  Bits(LimbsSub(Limbs(a, n), Limbs(b, n), 0))

BitsTimes(a, c) == Bits(LimbsTimes(Limbs(a, LimbCount(a)), c, 0))

\* a < b, for numerals without leading zeros.
BitsLess(a, b) ==
    \/ Len(a) < Len(b)
    \/ /\ Len(a) = Len(b)
       /\ \E i \in 1..Len(a) :
             /\ a[i] < b[i]
             /\ \A j \in (i + 1)..Len(a) : a[j] = b[j]

\* 2^e modulo b, for b < LimbBase.
RECURSIVE Pow2Mod(_, _)
Pow2Mod(e, b) ==
    IF e = 0 THEN 1 % b
    ELSE LET h == Pow2Mod(e \div 2, b)
         IN  (h * h * (IF e % 2 = 1 THEN 2 ELSE 1)) % b

\* The first n bits after the binary point of r / b, for r < b < LimbBase, and
\* whether anything is left after them.
FractionBits(r, b, n) ==
    [bits |-> [p \in 1..n |-> (2 * ((r * Pow2Mod(n - p, b)) % b)) \div b],
     rem |-> (r * Pow2Mod(n, b)) % b]

\* Round to nearest, ties to even: the numeral `a` (plus something below its
\* last bit when `sticky`) cut to SignificandBits bits.
RoundBits(a, sticky) ==
    LET b == Trim(a)
        d == Len(b) - SignificandBits
    IN  IF d <= 0 THEN b
        ELSE LET kept == SubSeq(b, d + 1, Len(b))
                 below == sticky \/ \E i \in 1..(d - 1) : b[i] = 1
                 up == b[d] = 1 /\ (below \/ kept[1] = 1)
             IN  Zeros(d) \o (IF up THEN BitsAdd(kept, <<1>>) ELSE kept)

\* A finite double: its sign and its magnitude.  The zero has no sign here:
\* the sign of a zero shows in none of the values computed below.
Double(neg, mag) == [neg |-> neg /\ Trim(mag) # <<>>, mag |-> Trim(mag), finite |-> TRUE]

Infinity(neg) == [neg |-> neg, mag |-> <<>>, finite |-> FALSE]
NaN == [neg |-> FALSE, mag |-> <<1>>, finite |-> FALSE]

\* The double of a whole number.
FromInt(n) == Double(n < 0, Zeros(FracBits) \o NatBits(IF n < 0 THEN -n ELSE n))

\* a / b for whole numbers a and b with |b| < LimbBase.
Divide(a, b) ==
    IF b = 0 THEN (IF a = 0 THEN NaN ELSE Infinity(a < 0))
    ELSE LET p == IF a < 0 THEN -a ELSE a
             q == IF b < 0 THEN -b ELSE b
             f == FractionBits(p % q, q, FracBits)
         IN  Double((a < 0) # (b < 0), RoundBits(f.bits \o NatBits(p \div q), f.rem # 0))

\* c * x for a whole number c and a double x.
Times(c, x) ==
    Double((c < 0) # x.neg, RoundBits(BitsTimes(x.mag, IF c < 0 THEN -c ELSE c), FALSE))

\* x / 2, exact for the magnitudes met here.
Half(x) == Double(x.neg, SubSeq(x.mag, 2, Len(x.mag)))

Negate(x) == Double(~x.neg, x.mag)

\* The exact sum of two doubles.
ExactPlus(x, y) ==
    IF x.neg = y.neg THEN Double(x.neg, BitsAdd(x.mag, y.mag))
    ELSE IF BitsLess(x.mag, y.mag) THEN Double(y.neg, BitsSub(y.mag, x.mag))
    ELSE Double(x.neg, BitsSub(x.mag, y.mag))

\* x + y and x - y in doubles.
Plus(x, y) == LET s == ExactPlus(x, y) IN Double(s.neg, RoundBits(s.mag, FALSE))
Minus(x, y) == Plus(x, Negate(y))

\* x < y
Less(x, y) ==
    IF x.neg # y.neg THEN x.neg
    ELSE IF x.neg THEN BitsLess(y.mag, x.mag) ELSE BitsLess(x.mag, y.mag)

(***************************************************************************)
(* hexToRgb: /^#?([a-f\d]{2})([a-f\d]{2})([a-f\d]{2})$/i and parseInt(, 16)*)
(***************************************************************************)
DigitsLower == <<"0", "1", "2", "3", "4", "5", "6", "7", "8", "9",
                 "a", "b", "c", "d", "e", "f">>
DigitsUpper == <<"0", "1", "2", "3", "4", "5", "6", "7", "8", "9",
                 "A", "B", "C", "D", "E", "F">>

IsHexDigit(c) == \E i \in 1..16 : DigitsLower[i] = c \/ DigitsUpper[i] = c

HexVal(c) == (CHOOSE i \in 1..16 : DigitsLower[i] = c \/ DigitsUpper[i] = c) - 1

\* parseInt of a two-digit group, base 16.
parseInt16(hi, lo) == 16 * HexVal(hi) + HexVal(lo)

NoRgb == [ok |-> FALSE, r |-> 0, g |-> 0, b |-> 0]

\* A faulty variant: a string that does not parse is taken for black.
hexToRgbLenient(hex) ==
    LET digits == IF Len(hex) > 0 /\ hex[1] = "#" THEN Tail(hex) ELSE hex
    IN  IF Len(digits) = 6 /\ \A i \in 1..6 : IsHexDigit(digits[i])
        THEN [ok |-> TRUE,
              r |-> parseInt16(digits[1], digits[2]),
              g |-> parseInt16(digits[3], digits[4]),
              b |-> parseInt16(digits[5], digits[6])]
        ELSE [ok |-> TRUE, r |-> 0, g |-> 0, b |-> 0]

\* The result of hexToRgb; ok = FALSE stands for null.
hexToRgb(hex) ==
    LET digits == IF Len(hex) > 0 /\ hex[1] = "#" THEN Tail(hex) ELSE hex
    IN  IF Len(digits) = 6 /\ \A i \in 1..6 : IsHexDigit(digits[i])
        THEN [ok |-> TRUE,
              r |-> parseInt16(digits[1], digits[2]),
              g |-> parseInt16(digits[3], digits[4]),
              b |-> parseInt16(digits[5], digits[6])]
        ELSE NoRgb

(***************************************************************************)
(* colorDistance.  Math.sqrt of the sum of squares is not an integer in    *)
(* general; the model keeps the sum of squares n, the distance being       *)
(* sqrt(n).  For an integer t >= 0, Math.sqrt(n) < t exactly when          *)
(* n < t * t (Math.sqrt is correctly rounded and exact on squares), which  *)
(* is how every comparison of a distance is modelled.                      *)
(***************************************************************************)
colorDistanceSq(r1, g1, b1, r2, g2, b2) ==
    (r1 - r2) * (r1 - r2) + (g1 - g2) * (g1 - g2) + (b1 - b2) * (b1 - b2)

\* colorDistance(...) < t, for an integer t >= 0.
DistanceBelow(distSq, t) == distSq < t * t

(***************************************************************************)
(* detectObjectsFromImage: isBackground.                                   *)
(***************************************************************************)
COLOR_THRESHOLD == 35
ALPHA_THRESHOLD == 10

\* bgColorRgb = options.mode === 'color' ? hexToRgb(options.color) : null
bgColorRgbOf(options) ==
    IF options.mode = "color" THEN hexToRgb(options.color) ELSE NoRgb

\* A faulty variant: in colour mode a nearly transparent pixel counts as background too.
isBackgroundAlphaToo(data, options, bgColorRgb, i) ==
    \/ data[i].a < ALPHA_THRESHOLD
    \/ /\ options.mode # "transparent" /\ bgColorRgb.ok
       /\ DistanceBelow(colorDistanceSq(data[i].r, data[i].g, data[i].b,
                                        bgColorRgb.r, bgColorRgb.g, bgColorRgb.b),
                        COLOR_THRESHOLD)

\* isBackground(index) with the values its closure holds: the pixels, the
\* options and bgColorRgb.
isBackground(data, options, bgColorRgb, i) ==
    IF options.mode = "transparent"
    THEN data[i].a < ALPHA_THRESHOLD
    ELSE IF bgColorRgb.ok
         THEN DistanceBelow(colorDistanceSq(data[i].r, data[i].g, data[i].b,
                                            bgColorRgb.r, bgColorRgb.g, bgColorRgb.b),
                            COLOR_THRESHOLD)
         ELSE FALSE

(***************************************************************************)
(* Inputs of the detector: two-valued images.  A paint gives the pixel     *)
(* value of the cells of a shape and of the other cells; under the         *)
(* options it is paired with, either of them may be the background.        *)
(***************************************************************************)
Cells(width, height) == (0..(width - 1)) \X (0..(height - 1))

Painted(width, height, shape, paint) ==
    [i \in 0..(width * height - 1) |->
        IF <<i % width, i \div width>> \in shape THEN paint.fg ELSE paint.bg]

White == <<"#", "f", "f", "f", "f", "f", "f">>
NotAColor == <<"n", "o", "t", "a", "c", "o", "l", "o", "r">>

OptTransparent == [mode |-> "transparent", color |-> White]
OptWhite == [mode |-> "color", color |-> White]
OptUnparsable == [mode |-> "color", color |-> NotAColor]

\* Opaque red on transparent white: the same segmentation in both modes.
PaintRed == [fg |-> Pixel(200, 30, 30, 255), bg |-> Pixel(255, 255, 255, 0)]
\* Alpha 10 against alpha 9; black against a grey at distance sqrt(1200) < 35.
PaintEdge == [fg |-> Pixel(0, 0, 0, 10), bg |-> Pixel(235, 235, 235, 9)]
\* White against a grey at distance sqrt(1241) > 35: in colour mode the shape is
\* the background.
PaintInverse == [fg |-> Pixel(255, 255, 255, 255), bg |-> Pixel(234, 235, 235, 255)]

TinyPaintings ==
    { <<PaintRed, OptTransparent>>, <<PaintRed, OptWhite>>, <<PaintEdge, OptTransparent>>,
      <<PaintInverse, OptWhite>>, <<PaintRed, OptUnparsable>> }

BigPaintings == { <<PaintRed, OptTransparent>>, <<PaintEdge, OptWhite>> }

\* maxX - minX > MIN_EXTENT && maxY - minY > MIN_EXTENT keeps a region.
MIN_EXTENT == 5

ArmLens == {1, MIN_EXTENT + 1, MIN_EXTENT + 2, BigDim - 1, BigDim}

\* An L in the top-left corner: a cells of row 0 and b cells of column 0.
TopLeftL(a, b) ==
    { <<x, 0>> : x \in 0..(a - 1) } \cup { <<0, y>> : y \in 0..(b - 1) }

\* An L in the bottom-right corner: c cells of the last row, d of the last column.
BottomRightL(c, d) ==
    { <<x, BigDim - 1>> : x \in (BigDim - c)..(BigDim - 1) }
        \cup { <<BigDim - 1, y>> : y \in (BigDim - d)..(BigDim - 1) }

TinyInputs ==
    { [image |-> ImageFile("tiny", TinyW, TinyH, Painted(TinyW, TinyH, shape, p[1])),
       options |-> p[2]] :
        shape \in SUBSET Cells(TinyW, TinyH), p \in TinyPaintings }

\* The shape, or its mirror image (x to BigDim - 1 - x).
Mirrored(shape, mirror) ==
    IF mirror THEN { <<BigDim - 1 - c[1], c[2]>> : c \in shape } ELSE shape

BigInputs ==
    { [image |-> ImageFile("big", BigDim, BigDim,
                           Painted(BigDim, BigDim,
                                   Mirrored(TopLeftL(arms[1], arms[2])
                                                \cup BottomRightL(arms[3], arms[4]), arms[5]),
                                   p[1])),
       options |-> p[2]] :
        arms \in ArmLens \X ArmLens \X (ArmLens \cup {0}) \X (ArmLens \cup {0}) \X BOOLEAN,
        p \in BigPaintings }

\* Two BlockSize x BlockSize blocks of one colour, gap background columns apart.
BlockInputs ==
    { [image |-> ImageFile("blocks", 2 * BlockSize + gap, BlockSize,
                           Painted(2 * BlockSize + gap, BlockSize,
                                   { c \in Cells(2 * BlockSize + gap, BlockSize) :
                                        c[1] < BlockSize \/ c[1] >= BlockSize + gap },
                                   p[1])),
       options |-> p[2]] :
        gap \in 1..MaxGap, p \in BigPaintings }

DetectInputs == TinyInputs \cup BigInputs \cup BlockInputs

(***************************************************************************)
(* detectObjectsFromImage, from the visited bitmap on (the image has       *)
(* loaded and the canvas holds its pixels).  det.marks[i] counts the       *)
(* writes visited[i] = 1 and det.pushes[i] the queue entries made for      *)
(* pixel i, det.marked and det.pushed their totals; they are history only,  *)
(* the code does not read them.                                            *)
(***************************************************************************)
\* The state of a function that is not running (in the specifications of the
\* other functions).
ClsIdle == [pc |-> "idle"]

\* A prop that was not given (!crop, !image).
Missing == [missing |-> TRUE]

\* The props and the state of Controls and CropEditor for the selected crop.
EdIdle ==
    [pc |-> "idle", image |-> [width |-> 0, height |-> 0],
     crop |-> [id |-> 0, x |-> 0, y |-> 0, width |-> 0, height |-> 0],
     activeHandle |-> <<>>, startPos |-> Missing, last |-> "none", edits |-> 0]

\* useState<string | null>(null): an id is a non-empty sequence.
null == <<>>

\* The state of App (App.tsx:349-356), what its pending handlers captured
\* when they began, the state of the CropEditor, and the clock.
AppIdle ==
    [pc |-> "idle", images |-> <<>>, selectedImageId |-> null, crops |-> <<>>,
     selectedCropId |-> null, isLoading |-> FALSE, isAutoCropping |-> FALSE,
     isRemovingBackground |-> FALSE,
     detecting |-> Missing, removing |-> Missing, downloading |-> Missing,
     activeHandle |-> <<>>, startPos |-> Missing,
     now |-> 0, last |-> [step |-> "nothing"]]

\* The state and the locals of a preview component.
PvIdle ==
    [pc |-> "idle", component |-> "none", image |-> Missing, crop |-> Missing,
     containerSize |-> [width |-> 0, height |-> 0],
     measured |-> [width |-> 0, height |-> 0], effect |-> FALSE,
     cropAspectRatio |-> FromInt(0), containerAspectRatio |-> FromInt(0),
     scale |-> FromInt(0), scaledWidth |-> FromInt(0), scaledHeight |-> FromInt(0),
     translateX |-> FromInt(0), translateY |-> FromInt(0),
     computed |-> {}, returned |-> "nothing", renders |-> 1]

\* The App state read and written by handleDownload, and its locals.
ExpIdle ==
    [pc |-> "idle", images |-> <<>>, crops |-> <<>>, isLoading |-> FALSE,
     progress |-> <<>>, totalOperations |-> 0, processedCount |-> 0,
     zipFileNameBase |-> <<>>, i |-> 0, k |-> 0, zip |-> {}, downloads |-> <<>>,
     events |-> <<>>, failures |-> 0, alerted |-> FALSE]

RemIdle ==
    [pc |-> "idle", imageFile |-> ImageFile("none", 0, 0, <<>>), hexColor |-> <<>>,
     feather |-> 0, targetRgb |-> NoRgb, originalData |-> <<>>, data |-> <<>>,
     queue |-> <<>>, visited |-> <<>>, head |-> 0, postFloodFillData |-> <<>>,
     x |-> 0, y |-> 0, result |-> ImageFile("none", 0, 0, <<>>), returned |-> "nothing"]

DetIdle ==
    [pc |-> "idle", image |-> ImageFile("none", 0, 0, <<>>), options |-> OptTransparent,
     bgColorRgb |-> NoRgb,
     visited |-> <<>>, boundingBoxes |-> <<>>, x |-> 0, y |-> 0,
     queue |-> <<>>, head |-> 0, minX |-> 0, minY |-> 0, maxX |-> 0, maxY |-> 0,
     marks |-> <<>>, pushes |-> <<>>, marked |-> 0, pushed |-> 0]

DetStart(input) ==
    LET n == input.image.width * input.image.height
    IN  [DetIdle EXCEPT !.pc = "scan", !.image = input.image, !.options = input.options,
                        !.bgColorRgb = bgColorRgbOf(input.options),
                        !.visited = [i \in 0..(n - 1) |-> FALSE],
                        !.marks = [i \in 0..(n - 1) |-> 0],
                        !.pushes = [i \in 0..(n - 1) |-> 0]]

OthersUnchangedByDetect == UNCHANGED <<cls, rem, exp, pv, ed, app>>

\* The x++ of the inner loop, and the y++ of the outer one when a row ends.
NextScan(d) ==
    IF d.x + 1 < d.image.width
    THEN [d EXCEPT !.x = d.x + 1]
    ELSE [d EXCEPT !.x = 0, !.y = d.y + 1]

ScanIndex == det.y * det.image.width + det.x

\* if (visited[i]) continue;
ScanVisited ==
    /\ det.pc = "scan" /\ det.y < det.image.height
    /\ det.visited[ScanIndex]
    /\ det' = NextScan(det)
    /\ OthersUnchangedByDetect

\* if (isBackground(pixelIndex)) { visited[i] = 1; continue; }
ScanBackground ==
    /\ det.pc = "scan" /\ det.y < det.image.height
    /\ ~det.visited[ScanIndex]
    /\ isBackground(det.image.url, det.options, det.bgColorRgb, ScanIndex)
    /\ det' = NextScan([det EXCEPT !.visited[ScanIndex] = TRUE,
                                   !.marks[ScanIndex] = @ + 1, !.marked = @ + 1])
    /\ OthersUnchangedByDetect

\* The seed of a flood fill: min/max set to (x, y), queue = [[x, y]], visited[i] = 1.
ScanSeed ==
    /\ det.pc = "scan" /\ det.y < det.image.height
    /\ ~det.visited[ScanIndex]
    /\ ~isBackground(det.image.url, det.options, det.bgColorRgb, ScanIndex)
    /\ det' = [det EXCEPT !.pc = "fill",
                          !.minX = det.x, !.minY = det.y, !.maxX = det.x, !.maxY = det.y,
                          !.queue = << <<det.x, det.y>> >>, !.head = 0,
                          !.visited[ScanIndex] = TRUE,
                          !.marks[ScanIndex] = @ + 1, !.pushes[ScanIndex] = @ + 1,
                          !.marked = @ + 1, !.pushed = @ + 1]
    /\ OthersUnchangedByDetect

\* A faulty variant: the fill also grows through diagonal neighbours.
Directions8 ==
    << <<0, 1>>, <<0, -1>>, <<1, 0>>, <<-1, 0>>, <<1, 1>>, <<1, -1>>, <<-1, 1>>, <<-1, -1>> >>

\* The neighbour offsets, in the order of the code's loop.
Directions == << <<0, 1>>, <<0, -1>>, <<1, 0>>, <<-1, 0>> >>

\* The neighbours of (cx, cy) the fill pushes: inside the image, not visited, not
\* background; in the order of Directions.
FillNeighbours(d, cx, cy) ==
    LET cand == [k \in 1..Len(Directions) |-> <<cx + Directions[k][1], cy + Directions[k][2]>>]
        Take(n) == /\ n[1] >= 0 /\ n[1] < d.image.width /\ n[2] >= 0 /\ n[2] < d.image.height
                   /\ ~d.visited[n[2] * d.image.width + n[1]]
                   /\ ~isBackground(d.image.url, d.options, d.bgColorRgb, n[2] * d.image.width + n[1])
    IN  SelectSeq(cand, Take)

\* A faulty variant: a pushed neighbour is not marked visited.
SetNone(f, idx) == f

\* f with f[i] = TRUE for every i of the sequence idx.
RECURSIVE SetAll(_, _)
SetAll(f, idx) ==
    IF idx = <<>> THEN f ELSE SetAll([f EXCEPT ![Head(idx)] = TRUE], Tail(idx))

\* f with f[i] raised by one for every occurrence of i in the sequence idx.
RECURSIVE CountAll(_, _)
CountAll(f, idx) ==
    IF idx = <<>> THEN f ELSE CountAll([f EXCEPT ![Head(idx)] = @ + 1], Tail(idx))

\* One iteration of while (head < queue.length): dequeue, widen the box, push.
FillStep ==
    /\ det.pc = "fill" /\ det.head < Len(det.queue)
    /\ LET cx == det.queue[det.head + 1][1]
           cy == det.queue[det.head + 1][2]
           new == FillNeighbours(det, cx, cy)
           newIdx == [k \in 1..Len(new) |-> new[k][2] * det.image.width + new[k][1]]
       IN  det' = [det EXCEPT !.head = det.head + 1,
                              !.minX = Min(det.minX, cx), !.minY = Min(det.minY, cy),
                              !.maxX = Max(det.maxX, cx), !.maxY = Max(det.maxY, cy),
                              !.queue = det.queue \o new,
                              !.visited = SetAll(det.visited, newIdx),
                              !.marks = CountAll(det.marks, newIdx),
                              !.pushes = CountAll(det.pushes, newIdx),
                              !.marked = @ + Len(new), !.pushed = @ + Len(new)]
    /\ OthersUnchangedByDetect

\* A faulty variant: the filter keeps a region whose extent reaches the threshold.
KeepsRegionAtThreshold(minX, minY, maxX, maxY) ==
    maxX - minX >= MIN_EXTENT /\ maxY - minY >= MIN_EXTENT

\* if (maxX - minX > 5 && maxY - minY > 5)
KeepsRegion(minX, minY, maxX, maxY) ==
    maxX - minX > MIN_EXTENT /\ maxY - minY > MIN_EXTENT

\* A faulty variant: the box is put in front of the list.
UnshiftBox(boxes, minX, minY, maxX, maxY) ==
    << [x |-> minX, y |-> minY,
        width |-> maxX - minX + 1, height |-> maxY - minY + 1] >> \o boxes

\* boundingBoxes.push({ x: minX, y: minY, width: ..., height: ... })
PushBox(boxes, minX, minY, maxX, maxY) ==
    Append(boxes, [x |-> minX, y |-> minY,
                   width |-> maxX - minX + 1, height |-> maxY - minY + 1])

\* The queue has drained: the region is reported or dropped, and the scan goes on.
FillDone ==
    /\ det.pc = "fill" /\ det.head >= Len(det.queue)
    /\ det' = NextScan([det EXCEPT
                 !.pc = "scan",
                 !.boundingBoxes =
                     IF KeepsRegion(det.minX, det.minY, det.maxX, det.maxY)
                     THEN PushBox(det.boundingBoxes, det.minX, det.minY, det.maxX, det.maxY)
                     ELSE det.boundingBoxes])
    /\ OthersUnchangedByDetect

\* return boundingBoxes
DetectReturn ==
    /\ det.pc = "scan" /\ det.y >= det.image.height
    /\ det' = [det EXCEPT !.pc = "done"]
    /\ OthersUnchangedByDetect


InitDetect ==
    /\ \E input \in DetectInputs : det = DetStart(input)
    /\ cls = ClsIdle
    /\ rem = RemIdle
    /\ exp = ExpIdle
    /\ pv = PvIdle
    /\ ed = EdIdle
    /\ app = AppIdle

NextDetect ==
    \/ ScanVisited
    \/ ScanBackground
    \/ ScanSeed
    \/ FillStep
    \/ FillDone
    \/ DetectReturn

SpecDetect == InitDetect /\ [][NextDetect]_vars

(***************************************************************************)
(* The classifier on its own: isBackground applied to one pixel.           *)
(***************************************************************************)
Black == <<"#", "0", "0", "0", "0", "0", "0">>
BlackNoHash == <<"0", "0", "0", "0", "0", "0">>
UpperRed == <<"#", "F", "f", "0", "0", "0", "0">>
ShortWhite == <<"#", "f", "f", "f">>

ClsPixels ==
    { Pixel(r, g, b, a) : r \in {0, 20, 21, 255}, g \in {0, 28}, b \in {0, 1},
                          a \in {0, 9, 10, 255} }

ClsOptions ==
    { [mode |-> m, color |-> c] :
        m \in {"transparent", "color"},
        c \in {Black, BlackNoHash, White, UpperRed, ShortWhite, NotAColor} }

OthersUnchangedByClassify == UNCHANGED <<det, rem, exp, pv, ed, app>>

InitClassify ==
    /\ \E px \in ClsPixels, options \in ClsOptions :
          cls = [pc |-> "call", data |-> [i \in {0} |-> px], options |-> options,
                 bgColorRgb |-> bgColorRgbOf(options), result |-> FALSE]
    /\ det = DetIdle
    /\ rem = RemIdle
    /\ exp = ExpIdle
    /\ pv = PvIdle
    /\ ed = EdIdle
    /\ app = AppIdle

\* One call isBackground(0) on a one-pixel buffer.
Classify ==
    /\ cls.pc = "call"
    /\ cls' = [cls EXCEPT !.pc = "done",
                          !.result = isBackground(cls.data, cls.options, cls.bgColorRgb, 0)]
    /\ OthersUnchangedByClassify

NextClassify == Classify

SpecClassify == InitClassify /\ [][NextClassify]_vars

(***************************************************************************)
(* removeImageBackground, from getImageData on (the image has loaded and   *)
(* the canvas holds its pixels).                                           *)
(***************************************************************************)
REMOVE_COLOR_THRESHOLD == 20

\* A faulty variant: a colour at exactly the threshold distance matches too.
colorMatchInclusive(px, targetRgb) ==
    colorDistanceSq(px.r, px.g, px.b, targetRgb.r, targetRgb.g, targetRgb.b)
        <= REMOVE_COLOR_THRESHOLD * REMOVE_COLOR_THRESHOLD

\* colorMatch(r, g, b), with the targetRgb its closure holds.
colorMatch(px, targetRgb) ==
    DistanceBelow(colorDistanceSq(px.r, px.g, px.b, targetRgb.r, targetRgb.g, targetRgb.b),
                  REMOVE_COLOR_THRESHOLD)

\* addToQueue(x, y) on the queue and the visited bitmap of r.
addToQueue(r, x, y) ==
    LET i == y * r.imageFile.width + x
    IN  IF r.visited[i] THEN r
        ELSE IF colorMatch(r.data[i], r.targetRgb)
             THEN [r EXCEPT !.queue = Append(@, <<x, y>>), !.visited[i] = TRUE]
             ELSE r

\* addToQueue for every cell of a sequence, in order.
RECURSIVE addAllToQueue(_, _)
addAllToQueue(r, cells) ==
    IF cells = <<>> THEN r
    ELSE addAllToQueue(addToQueue(r, Head(cells)[1], Head(cells)[2]), Tail(cells))

\* A faulty variant: every pixel seeds the fill, not only the border.
AllCellCalls(width, height) ==
    [k \in 1..(width * height) |-> <<(k - 1) % width, (k - 1) \div width>>]

\* The calls of the two seeding loops, in order: (x, 0), (x, height - 1) for each
\* x, then (0, y), (width - 1, y) for each y of 1..height - 2.
BorderCalls(width, height) ==
    [k \in 1..(2 * width) |->
        <<(k - 1) \div 2, IF k % 2 = 1 THEN 0 ELSE height - 1>>]
    \o [k \in 1..(2 * Max(height - 2, 0)) |->
        <<IF k % 2 = 1 THEN 0 ELSE width - 1, 1 + ((k - 1) \div 2)>>]

\* The neighbours of (x, y) inside the image, in the order of Directions.
InsideNeighbours(width, height, x, y) ==
    LET cand == [k \in 1..Len(Directions) |-> <<x + Directions[k][1], y + Directions[k][2]>>]
        Inside(n) == n[1] >= 0 /\ n[1] < width /\ n[2] >= 0 /\ n[2] < height
    IN  SelectSeq(cand, Inside)

(***************************************************************************)
(* data[pixelIndex + 3] = originalAlpha * (distance / feather): a store    *)
(* into a Uint8ClampedArray, which rounds to the nearest integer and       *)
(* clamps to 0..255.  With v = originalAlpha * sqrt(distSq) / feather, k   *)
(* is a nearest integer of v when (2k - 1) * feather                       *)
(* <= 2 * originalAlpha * sqrt(distSq) <= (2k + 1) * feather.  Exactly     *)
(* between two integers the double arithmetic lands on either side (the    *)
(* quotient distance / feather is rounded before the product), so the      *)
(* model allows both neighbours there and one value everywhere else.       *)
(* The comparisons with a square root are made on integers that stay       *)
(* within 32 bits.                                                         *)
(***************************************************************************)
\* X <= m * sqrt(n), for integers X >= 0, m >= 1, n >= 0: with X = q * m + r,
\* (q * m + r)^2 <= m^2 * n.
LeSqrt(X, m, n) ==
    LET q == X \div m
        r == X % m
    IN  IF q * q > n THEN FALSE
        ELSE IF (q + 1) * (q + 1) <= n THEN TRUE
        ELSE 2 * q * r * m + r * r <= (n - q * q) * m * m

\* X >= m * sqrt(n), likewise.
GeSqrt(X, m, n) ==
    LET q == X \div m
        r == X % m
    IN  IF q * q > n THEN TRUE
        ELSE IF (q + 1) * (q + 1) <= n THEN FALSE
        ELSE 2 * q * r * m + r * r >= (n - q * q) * m * m

\* A faulty variant: the store truncates, as a plain Uint8Array does.
FeatherAlphasTruncated(originalAlpha, distSq, feather) ==
    LET below == { k \in 0..255 :
                     /\ LeSqrt(k * feather, originalAlpha, distSq)
                     /\ ~LeSqrt((k + 1) * feather, originalAlpha, distSq) }
    IN  IF originalAlpha = 0 THEN {0} ELSE IF below = {} THEN {255} ELSE below

\* A faulty variant: the stored alpha is the distance's share of full opacity.
FeatherAlphasOfOpaque(originalAlpha, distSq, feather) ==
    { k \in 0..255 :
        /\ k = 0 \/ LeSqrt((2 * k - 1) * feather, 2 * 255, distSq)
        /\ GeSqrt((2 * k + 1) * feather, 2 * 255, distSq) }

\* The values the store may leave.
FeatherAlphas(originalAlpha, distSq, feather) ==
    LET nearest == { k \in 0..255 :
                       /\ k = 0 \/ LeSqrt((2 * k - 1) * feather, 2 * originalAlpha, distSq)
                       /\ GeSqrt((2 * k + 1) * feather, 2 * originalAlpha, distSq) }
    IN  IF originalAlpha = 0 THEN {0} ELSE IF nearest = {} THEN {255} ELSE nearest

\* A faulty variant: an edge pixel is recomputed whatever its distance.
WithinFeatherAlways(distSq, feather) == TRUE

\* if (distance < feather)
WithinFeather(distSq, feather) == DistanceBelow(distSq, feather)

\* A faulty variant: the neighbours are looked up in the buffer Pass 2 writes.
isEdgeLive(postFloodFillData, width, height, x, y) ==
    LET ns == InsideNeighbours(width, height, x, y)
    IN  \E k \in 1..Len(ns) : rem.data[ns[k][2] * width + ns[k][1]].a = 0

\* isEdge: an inside neighbour whose alpha after the flood fill is 0.
isEdge(postFloodFillData, width, height, x, y) ==
    LET ns == InsideNeighbours(width, height, x, y)
    IN  \E k \in 1..Len(ns) : postFloodFillData[ns[k][2] * width + ns[k][1]].a = 0

\* The call removeImageBackground(imageFile, hexColor, feather) up to hexToRgb:
\* originalData and data are two copies of the canvas pixels.
RemStart(input) ==
    [RemIdle EXCEPT !.pc = "parse", !.imageFile = input.imageFile,
                    !.hexColor = input.hexColor, !.feather = input.feather,
                    !.originalData = input.imageFile.url, !.data = input.imageFile.url]

OthersUnchangedByRemove == UNCHANGED <<det, cls, exp, pv, ed, app>>

\* if (!targetRgb) return imageFile;
RemoveUnparsable ==
    /\ rem.pc = "parse"
    /\ ~hexToRgb(rem.hexColor).ok
    /\ rem' = [rem EXCEPT !.pc = "done", !.result = rem.imageFile,
                           !.returned = "imageFile"]
    /\ OthersUnchangedByRemove

\* targetRgb parsed; the visited bitmap is cleared and the two loops over the
\* border seed the queue.
RemoveSeed ==
    /\ rem.pc = "parse"
    /\ hexToRgb(rem.hexColor).ok
    /\ LET n == rem.imageFile.width * rem.imageFile.height
           r0 == [rem EXCEPT !.pc = "flood", !.targetRgb = hexToRgb(rem.hexColor),
                             !.queue = <<>>, !.head = 0,
                             !.visited = [i \in 0..(n - 1) |-> FALSE]]
       IN  rem' = addAllToQueue(r0, BorderCalls(rem.imageFile.width, rem.imageFile.height))
    /\ OthersUnchangedByRemove

\* One iteration of while (head < queue.length): the pixel is made transparent
\* and its inside neighbours are offered to the queue.
RemoveFloodStep ==
    /\ rem.pc = "flood" /\ rem.head < Len(rem.queue)
    /\ LET x == rem.queue[rem.head + 1][1]
           y == rem.queue[rem.head + 1][2]
           r1 == [rem EXCEPT !.head = rem.head + 1,
                             !.data[y * rem.imageFile.width + x].a = 0]
       IN  rem' = addAllToQueue(r1, InsideNeighbours(rem.imageFile.width,
                                                     rem.imageFile.height, x, y))
    /\ OthersUnchangedByRemove

\* The queue has drained and feather > 0: Pass 2 starts on a copy of data.
RemoveFeatherStart ==
    /\ rem.pc = "flood" /\ rem.head >= Len(rem.queue)
    /\ rem.feather > 0
    /\ rem' = [rem EXCEPT !.pc = "feather", !.postFloodFillData = rem.data,
                          !.x = 0, !.y = 0]
    /\ OthersUnchangedByRemove

\* The x++ / y++ of the loops of Pass 2.
NextFeather(r) ==
    IF r.x + 1 < r.imageFile.width
    THEN [r EXCEPT !.x = r.x + 1]
    ELSE [r EXCEPT !.x = 0, !.y = r.y + 1]

\* One iteration of the inner loop of Pass 2, on pixel (x, y).
RemoveFeatherPixel ==
    /\ rem.pc = "feather" /\ rem.y < rem.imageFile.height
    /\ LET i == rem.y * rem.imageFile.width + rem.x
           orig == rem.originalData[i]
           distSq == colorDistanceSq(orig.r, orig.g, orig.b,
                                     rem.targetRgb.r, rem.targetRgb.g, rem.targetRgb.b)
       IN  IF /\ rem.postFloodFillData[i].a > 0
              /\ isEdge(rem.postFloodFillData, rem.imageFile.width, rem.imageFile.height,
                        rem.x, rem.y)
              /\ WithinFeather(distSq, rem.feather)
           THEN \E alpha \in FeatherAlphas(orig.a, distSq, rem.feather) :
                    rem' = NextFeather([rem EXCEPT !.data[i].a = alpha])
           ELSE rem' = NextFeather(rem)
    /\ OthersUnchangedByRemove

\* ctx.putImageData(imageData, 0, 0); return { ...imageFile, url: canvas.toDataURL() }
\* A faulty variant: the new url is stored into the record that was passed in.
ReturnInPlace(r) ==
    [r EXCEPT !.pc = "done", !.imageFile.url = r.data,
              !.result = [r.imageFile EXCEPT !.url = r.data], !.returned = "imageFile"]

\* The object literal { ...imageFile, url: canvas.toDataURL() }: a new record
\* with the fields of imageFile and the url of the canvas.
ReturnSpread(r) ==
    [r EXCEPT !.pc = "done", !.result = [r.imageFile EXCEPT !.url = r.data],
              !.returned = "object literal"]

RemoveReturn ==
    /\ \/ rem.pc = "flood" /\ rem.head >= Len(rem.queue) /\ rem.feather = 0
       \/ rem.pc = "feather" /\ rem.y >= rem.imageFile.height
    /\ rem' = ReturnSpread(rem)
    /\ OthersUnchangedByRemove

(***************************************************************************)
(* Inputs of the background removal.  The palette is laid out around the   *)
(* target black: distances 0, 10, 20, sqrt(1200), 50 and sqrt(195075), and *)
(* alphas 255, 200, 1 and 0.                                               *)
(***************************************************************************)
PxMatch == Pixel(0, 0, 0, 255)
PxNear == Pixel(6, 8, 0, 255)
PxAtThreshold == Pixel(12, 16, 0, 255)
PxGrey == Pixel(20, 20, 20, 255)
PxHalf == Pixel(30, 40, 0, 200)
PxFar == Pixel(255, 255, 255, 255)
PxClear == Pixel(30, 40, 0, 0)
PxFaint == Pixel(12, 16, 0, 1)

Palette == {PxMatch, PxNear, PxAtThreshold, PxGrey, PxHalf, PxFar, PxClear, PxFaint}
OpaquePalette == {PxMatch, PxNear, PxGrey, PxFar}

Feathers == {0, 1, 25, 50, 100}
FewFeathers == {0, 25, 100}

SevenDigits == <<"#", "0", "0", "0", "0", "0", "0", "0">>
BadDigit == <<"#", "0", "0", "0", "0", "0", "g">>
TwoHashes == <<"#", "#", "0", "0", "0", "0", "0", "0">>

BadColors == {NotAColor, ShortWhite, <<>>, SevenDigits, BadDigit, TwoHashes}

RemInput(image, hex, feather) == [imageFile |-> image, hexColor |-> hex, feather |-> feather]

\* Strips, lying or standing, over the whole palette.
StripImages(maxLen) ==
    { ImageFile("strip", IF lying THEN len ELSE 1, IF lying THEN 1 ELSE len, px) :
        <<len, px, lying>> \in
            UNION { { <<n, f, l>> : f \in [0..(n - 1) -> Palette], l \in BOOLEAN } :
                    n \in 1..maxLen } }

StripInputs ==
    { RemInput(image, Black, feather) : image \in StripImages(MaxStrip), feather \in Feathers }

RemPaints ==
    { [fg |-> PxMatch, bg |-> PxFar], [fg |-> PxNear, bg |-> PxGrey],
      [fg |-> PxClear, bg |-> PxHalf] }

TinyRemInputs ==
    { RemInput(ImageFile("tiny", TinyW, TinyH, Painted(TinyW, TinyH, shape, paint)),
               BlackNoHash, feather) :
        shape \in SUBSET Cells(TinyW, TinyH), paint \in RemPaints, feather \in FewFeathers }

\* The number of cells between (x, y) and the nearest side of the image.
Depth(x, y) == Min(Min(x, y), Min(RingDim - 1 - x, RingDim - 1 - y))

\* A border of `outer`, inside it a ring of `ring`, and a centre of `centre`; the
\* cell `bridge` of the ring, if any, has the centre's value.
RingPixels(outer, ring, centre, bridge) ==
    [i \in 0..(RingDim * RingDim - 1) |->
        LET x == i % RingDim
            y == i \div RingDim
        IN  IF Depth(x, y) = 0 THEN outer
            ELSE IF Depth(x, y) = 1 /\ <<x, y>> # bridge THEN ring
            ELSE centre]

RingCells == { c \in Cells(RingDim, RingDim) : Depth(c[1], c[2]) = 1 }

RingInputs ==
    { RemInput(ImageFile("ring", RingDim, RingDim, RingPixels(o, r, c, bridge)),
               Black, feather) :
        o \in OpaquePalette, r \in OpaquePalette, c \in OpaquePalette,
        bridge \in RingCells \cup { <<-1, -1>> }, feather \in FewFeathers }

BadColorInputs ==
    { RemInput(image, hex, feather) :
        image \in StripImages(MaxStrip - 1), hex \in BadColors, feather \in Feathers }

\* Images with a transparent centre (0, 0, 0, 0), as a decoded picture with a
\* hole has, inside a ring and a border of colours that may not match.
PxHole == Pixel(0, 0, 0, 0)

HoleInputs ==
    { RemInput(ImageFile("hole", RingDim, RingDim, RingPixels(o, r, PxHole, <<-1, -1>>)),
               Black, feather) :
        o \in OpaquePalette \cup {PxHalf}, r \in OpaquePalette \cup {PxHalf},
        feather \in Feathers }

RemoveInputs == <<StripInputs, TinyRemInputs, RingInputs, BadColorInputs, HoleInputs>>

InitRemove ==
    /\ \E family \in DOMAIN RemoveInputs :
          \E input \in RemoveInputs[family] : rem = RemStart(input)
    /\ det = DetIdle
    /\ cls = ClsIdle
    /\ exp = ExpIdle
    /\ pv = PvIdle
    /\ ed = EdIdle
    /\ app = AppIdle

NextRemove ==
    \/ RemoveUnparsable
    \/ RemoveSeed
    \/ RemoveFloodStep
    \/ RemoveFeatherStart
    \/ RemoveFeatherPixel
    \/ RemoveReturn

SpecRemove == InitRemove /\ [][NextRemove]_vars

(***************************************************************************)
(* handleDownload (src/App.tsx): the export of every crop of every image.  *)
(***************************************************************************)
\* name.lastIndexOf('.'), 0-based, -1 when there is no dot.
lastIndexOfDot(name) ==
    LET dots == { p \in 1..Len(name) : name[p] = "." }
    IN  IF dots = {} THEN -1 ELSE (CHOOSE p \in dots : \A q \in dots : q <= p) - 1

\* name.substring(0, end): a negative end counts as 0.
substring0(name, end) == SubSeq(name, 1, Max(end, 0))

\* name.split('.'): the pieces between the dots.
RECURSIVE split(_)
split(name) ==
    LET dots == { p \in 1..Len(name) : name[p] = "." }
    IN  IF dots = {} THEN <<name>>
        ELSE LET p == CHOOSE d \in dots : \A q \in dots : d <= q
             IN  <<SubSeq(name, 1, p - 1)>> \o split(SubSeq(name, p + 1, Len(name)))

\* pieces.join('.')
RECURSIVE join(_)
join(pieces) ==
    IF Len(pieces) = 0 THEN <<>>
    ELSE IF Len(pieces) = 1 THEN pieces[1]
    ELSE pieces[1] \o <<".">> \o join(Tail(pieces))

\* (images[0]?.name.split('.').slice(0, -1).join('.')) || 'cropped-images'
zipFileNameBaseOf(images) ==
    LET pieces == split(images[1].name)
        joined == join(SubSeq(pieces, 1, Len(pieces) - 1))
    IN  IF joined = <<>> THEN <<"cropped-images">> ELSE joined

\* `${baseName}.png` with baseName = name.substring(0, name.lastIndexOf('.'))
fileNameOf(imageFile) == substring0(imageFile.name, lastIndexOfDot(imageFile.name)) \o <<".png">>

\* The decimal digits of n, as `${n}` writes them.
RECURSIVE Decimal(_)
Decimal(n) ==
    LET digit == <<"0", "1", "2", "3", "4", "5", "6", "7", "8", "9">>[(n % 10) + 1]
    IN  IF n < 10 THEN <<digit>> ELSE Decimal(n \div 10) \o <<digit>>

\* A faulty variant: every archive gets the unsuffixed name.
downloadNameUnsuffixed(base, i, cropCount) == base \o <<"-crop.zip">>

\* link.download
downloadName(base, i, cropCount) ==
    IF cropCount > 1 THEN base \o <<"-crop-">> \o Decimal(i + 1) \o <<".zip">>
    ELSE base \o <<"-crop.zip">>

\* canvas.width = v: a canvas dimension is a whole number of pixels, the
\* fraction of v (counted in half pixels) is dropped.
CanvasLength(halves) == halves \div 2

\* zip.file(fileName, blob): a file of that name is replaced.
zipFile(zip, file) == { f \in zip : f.fileName # file.fileName } \cup {file}

\* setProgress(value): the value is stored and the call is recorded.
setProgress(e, value) == [e EXCEPT !.progress = Append(e.progress, value)]

NoProgress == [processed |-> -1, total |-> -1]

\* A faulty variant: an item is not counted.
countedNot(e) == e

\* processedCount++; setProgress({ processed: processedCount, total: totalOperations })
counted(e) ==
    setProgress([e EXCEPT !.processedCount = e.processedCount + 1],
                [processed |-> e.processedCount + 1, total |-> e.totalOperations])

\* A faulty variant: the archive is emitted after every image.
nextImageThenArchive(e, what) ==
    [e EXCEPT !.k = e.k + 1,
              !.events = Append(e.events, [what |-> what, i |-> e.i, k |-> e.k]),
              !.pc = "archive"]

\* The end of one iteration of for (const imageFile of images); `what` records
\* how the iteration went.
nextImage(e, what) ==
    [e EXCEPT !.k = e.k + 1,
              !.events = Append(e.events, [what |-> what, i |-> e.i, k |-> e.k]),
              !.pc = IF e.k + 1 < Len(e.images) THEN "item" ELSE "archive"]

\* A faulty variant: an item without context or blob ends the export.
skippedAborts(e, what) ==
    [e EXCEPT !.pc = "finally", !.alerted = TRUE, !.failures = e.failures + 1,
              !.events = Append(e.events, [what |-> what, i |-> e.i, k |-> e.k])]

\* An item without context or blob: nothing is put into the zip, the item is
\* counted, the loop goes on.
skipped(e, what) == nextImage(counted([e EXCEPT !.failures = e.failures + 1]), what)

OthersUnchangedByExport == UNCHANGED <<det, cls, rem, pv, ed, app>>

ExpStart(input) == [ExpIdle EXCEPT !.pc = "start", !.images = input.images, !.crops = input.crops]

\* if (images.length === 0 || crops.length === 0) return;
ExportNothing ==
    /\ exp.pc = "start"
    /\ Len(exp.images) = 0 \/ Len(exp.crops) = 0
    /\ exp' = [exp EXCEPT !.pc = "done"]
    /\ OthersUnchangedByExport

\* setIsLoading(true) ... const zip = new JSZip() of the first crop.
ExportBegin ==
    /\ exp.pc = "start"
    /\ Len(exp.images) # 0 /\ Len(exp.crops) # 0
    /\ LET total == Len(exp.images) * Len(exp.crops)
       IN  exp' = setProgress([exp EXCEPT !.pc = "item", !.isLoading = TRUE,
                                          !.totalOperations = total,
                                          !.processedCount = 0,
                                          !.zipFileNameBase = zipFileNameBaseOf(exp.images),
                                          !.i = 0, !.k = 0, !.zip = {}],
                              [processed |-> 0, total |-> total])
    /\ OthersUnchangedByExport

\* img.onerror = reject: the await throws, the catch block alerts.
ExportLoadFails ==
    /\ exp.pc = "item"
    /\ exp.failures < MaxFailures
    /\ exp' = [exp EXCEPT !.pc = "finally", !.alerted = TRUE, !.failures = exp.failures + 1]
    /\ OthersUnchangedByExport

\* if (!ctx) { processedCount++; setProgress(...); continue; }
ExportNoContext ==
    /\ exp.pc = "item"
    /\ exp.failures < MaxFailures
    /\ exp' = skipped(exp, "no context")
    /\ OthersUnchangedByExport

\* canvas.toBlob gives null: no file is added, the item is counted.
ExportNoBlob ==
    /\ exp.pc = "item"
    /\ exp.failures < MaxFailures
    /\ exp' = skipped(exp, "no blob")
    /\ OthersUnchangedByExport

\* The image is drawn and encoded, the file is put into the zip, the item is
\* counted.
ExportItem ==
    /\ exp.pc = "item"
    /\ LET crop == exp.crops[exp.i + 1]
           imageFile == exp.images[exp.k + 1]
           file == [fileName |-> fileNameOf(imageFile), image |-> imageFile.id,
                    crop |-> crop.id, width |-> CanvasLength(crop.width),
                    height |-> CanvasLength(crop.height)]
       IN  exp' = nextImage(counted([exp EXCEPT !.zip = zipFile(exp.zip, file)]), "file")
    /\ OthersUnchangedByExport

\* zip.generateAsync, link.click(), and the next crop's new JSZip().
ExportArchive ==
    /\ exp.pc = "archive"
    /\ LET emitted ==
               [exp EXCEPT !.downloads =
                               Append(exp.downloads,
                                      [download |-> downloadName(exp.zipFileNameBase, exp.i,
                                                                 Len(exp.crops)),
                                       files |-> exp.zip]),
                           !.events = Append(exp.events,
                                             [what |-> "archive", i |-> exp.i, k |-> -1])]
       IN  exp' = IF exp.i + 1 < Len(exp.crops)
                  THEN [emitted EXCEPT !.i = exp.i + 1, !.k = 0, !.zip = {}, !.pc = "item"]
                  ELSE [emitted EXCEPT !.i = exp.i + 1, !.pc = "finally"]
    /\ OthersUnchangedByExport

\* zip.generateAsync rejects: the await throws, the catch block alerts.
ExportArchiveFails ==
    /\ exp.pc = "archive"
    /\ exp.failures < MaxFailures
    /\ exp' = [exp EXCEPT !.pc = "finally", !.alerted = TRUE, !.failures = exp.failures + 1]
    /\ OthersUnchangedByExport

\* A faulty variant: the flag and the progress are reset after the last archive
\* only, not in a finally block.
ExportFinallyUnlessThrown ==
    /\ exp.pc = "finally"
    /\ exp' = IF exp.alerted THEN [exp EXCEPT !.pc = "done"]
              ELSE setProgress([exp EXCEPT !.pc = "done", !.isLoading = FALSE], NoProgress)
    /\ OthersUnchangedByExport

\* finally { setIsLoading(false); setProgress(null); }
ExportFinally ==
    /\ exp.pc = "finally"
    /\ exp' = setProgress([exp EXCEPT !.pc = "done", !.isLoading = FALSE], NoProgress)
    /\ OthersUnchangedByExport

\* File names with the same base and different extensions, without a dot, with
\* two dots, and with nothing before the dot.
ExpNames ==
    { <<"a", ".", "png">>, <<"a", ".", "jpg">>, <<"b", ".", "x", ".", "gif">>, <<"c">>,
      <<".", "png">> }

\* id: `${file.name}-${Date.now()}`, one instant per file.
ExpImage(name, now) == [id |-> <<name, <<now>>>>, name |-> name]

\* The comparator of the upload's sort: no name here holds a digit, so it is
\* a.name.localeCompare(b.name, undefined, { numeric: true }), which puts the
\* full stop before the letters.
numericSort(a, b) ==
    LET order == << <<".", "png">>, <<"a", ".", "jpg">>, <<"a", ".", "png">>,
                    <<"b", ".", "x", ".", "gif">>, <<"c">> >>
        rank(name) == CHOOSE k \in DOMAIN order : order[k] = name
    IN  rank(a.name) - rank(b.name)

\* The images are kept as the upload sorted them (imageData.sort(numericSort)).
ExpImageLists ==
    UNION { { list \in { [k \in 1..n |-> ExpImage(names[k], k)] : names \in [1..n -> ExpNames] } :
                \A i \in 1..n : \A j \in (i + 1)..n : numericSort(list[i], list[j]) <= 0 } :
            n \in 0..MaxImages }

\* Crop j, with whole sides or with sides that end in half a pixel.
ExpCrop(j, whole) ==
    [id |-> j, x |-> 2 * j, y |-> 0,
     width |-> IF whole THEN 2 * j + 2 ELSE 2 * j + 3,
     height |-> IF whole THEN 2 * j + 4 ELSE 2 * j + 1]

ExpCropLists ==
    { [j \in 1..n |-> ExpCrop(j, whole)] : n \in 0..MaxCrops, whole \in BOOLEAN }

ExportInputs == { [images |-> im, crops |-> cr] : im \in ExpImageLists, cr \in ExpCropLists }

InitExport ==
    /\ \E input \in ExportInputs : exp = ExpStart(input)
    /\ det = DetIdle
    /\ cls = ClsIdle
    /\ rem = RemIdle
    /\ pv = PvIdle
    /\ ed = EdIdle
    /\ app = AppIdle

NextExport ==
    \/ ExportNothing
    \/ ExportBegin
    \/ ExportLoadFails
    \/ ExportNoContext
    \/ ExportNoBlob
    \/ ExportItem
    \/ ExportArchive
    \/ ExportArchiveFails
    \/ ExportFinally

SpecExport == InitExport /\ [][NextExport]_vars

\* Every awaited step of the export resolves or rejects: a step that can be
\* taken is taken.
SpecExportLive == SpecExport /\ WF_vars(NextExport)

(***************************************************************************)
(* The crop previews: Thumbnail (src/types.ts) and SingleCropPreview       *)
(* (src/unnamed/part_001).  Both render in the same steps: the guard, the  *)
(* two aspect ratios, the scale, the sizes and the translation.  After the *)
(* first render the layout effect stores the measured size of the          *)
(* container, and the component renders again.  A crop's x, y, width and   *)
(* height are counted in half pixels, the container and the image in whole *)
(* pixels.  pv.computed lists the locals the render has assigned; it is    *)
(* history only.  A division by zero gives a double that is not finite.    *)
(***************************************************************************)
OthersUnchangedByPreview == UNCHANGED <<det, cls, rem, exp, ed, app>>

\* useState({ width: 160, height: 160 }) and useState({ width: 128, height: 128 })
defaultContainerSize(component) ==
    IF component = "Thumbnail" THEN [width |-> 160, height |-> 160]
    ELSE [width |-> 128, height |-> 128]

\* A faulty variant: the height of the crop is not looked at.
invalidHeightUnchecked(crop, image) ==
    IF crop = Missing THEN TRUE
    ELSE IF crop.width <= 0 THEN TRUE
    ELSE IF image = Missing THEN TRUE
    ELSE image.width <= 0 \/ image.height <= 0

\* !crop || crop.width <= 0 || crop.height <= 0 || !image || image.width <= 0
\* || image.height <= 0
invalid(crop, image) ==
    IF crop = Missing THEN TRUE
    ELSE IF crop.width <= 0 \/ crop.height <= 0 THEN TRUE
    ELSE IF image = Missing THEN TRUE
    ELSE image.width <= 0 \/ image.height <= 0

\* crop.width / crop.height: the quotient of the half pixels is the quotient of
\* the pixels.
cropAspectRatio(crop) == Divide(crop.width, crop.height)

\* A faulty variant: the ratio of the container is always a quotient.
containerAspectRatioUnguarded(containerSize) ==
    Divide(containerSize.width, containerSize.height)

containerAspectRatio(containerSize) ==
    IF containerSize.width > 0 /\ containerSize.height > 0
    THEN Divide(containerSize.width, containerSize.height)
    ELSE FromInt(1)

\* A faulty variant: the crop is fitted inside the container.
scaleContain(crop, containerSize, cropRatio, containerRatio) ==
    IF Less(cropRatio, containerRatio)
    THEN Divide(2 * containerSize.height, crop.height)
    ELSE Divide(2 * containerSize.width, crop.width)

\* if (cropAspectRatio > containerAspectRatio) scale = containerSize.height /
\* crop.height; else scale = containerSize.width / crop.width
scale(crop, containerSize, cropRatio, containerRatio) ==
    IF Less(containerRatio, cropRatio)
    THEN Divide(2 * containerSize.height, crop.height)
    ELSE Divide(2 * containerSize.width, crop.width)

\* halves / 2 * s in doubles: halving a double is exact.
Pixels(halves, s) == Half(Times(halves, s))

\* A faulty variant: the top left corner of the crop is put at the container's.
translateCorner(offset, side, length, s) == Negate(Pixels(offset, s))

\* -(crop.x * scale) + (containerSize.width - (crop.width * scale)) / 2, and the
\* same of y and the heights.
translate(offset, side, length, s) ==
    Plus(Negate(Pixels(offset, s)), Half(Minus(FromInt(length), Pixels(side, s))))

PreviewMount(input) ==
    /\ pv.pc = "idle"
    /\ pv' = [PvIdle EXCEPT !.pc = "render", !.component = input.component,
                            !.image = input.image, !.crop = input.crop,
                            !.containerSize = defaultContainerSize(input.component),
                            !.measured = input.measured, !.effect = TRUE]
    /\ OthersUnchangedByPreview

PreviewPlaceholder ==
    /\ pv.pc = "render"
    /\ invalid(pv.crop, pv.image)
    /\ pv' = [pv EXCEPT !.pc = "rendered", !.returned = "placeholder"]
    /\ OthersUnchangedByPreview

PreviewRatios ==
    /\ pv.pc = "render"
    /\ ~invalid(pv.crop, pv.image)
    /\ pv' = [pv EXCEPT !.pc = "scale",
                        !.cropAspectRatio = cropAspectRatio(pv.crop),
                        !.containerAspectRatio = containerAspectRatio(pv.containerSize),
                        !.computed = @ \cup {"cropAspectRatio", "containerAspectRatio"}]
    /\ OthersUnchangedByPreview

PreviewScale ==
    /\ pv.pc = "scale"
    /\ pv' = [pv EXCEPT !.pc = "transform",
                        !.scale = scale(pv.crop, pv.containerSize, pv.cropAspectRatio,
                                        pv.containerAspectRatio),
                        !.computed = @ \cup {"scale"}]
    /\ OthersUnchangedByPreview

PreviewTransform ==
    /\ pv.pc = "transform"
    /\ pv' = [pv EXCEPT !.pc = "rendered", !.returned = "image",
                        !.scaledWidth = Times(pv.image.width, pv.scale),
                        !.scaledHeight = Times(pv.image.height, pv.scale),
                        !.translateX = translate(pv.crop.x, pv.crop.width,
                                                 pv.containerSize.width, pv.scale),
                        !.translateY = translate(pv.crop.y, pv.crop.height,
                                                 pv.containerSize.height, pv.scale),
                        !.computed = @ \cup {"scaledWidth", "scaledHeight",
                                             "translateX", "translateY"}]
    /\ OthersUnchangedByPreview

\* useLayoutEffect(..., []): once, after the first render; setContainerSize
\* stores a new object, so the component renders again.
PreviewLayoutEffect ==
    /\ pv.pc = "rendered"
    /\ pv.effect
    /\ pv' = [pv EXCEPT !.pc = "render", !.effect = FALSE, !.returned = "nothing",
                        !.containerSize = pv.measured, !.computed = {},
                        !.renders = @ + 1]
    /\ OthersUnchangedByPreview

\* Inputs of the previews: sides of a crop in half pixels, 77 being the
\* initial crop of a 77 pixel image.
PreviewSides == {-2, 0, 3, 49, 77, 154}
PreviewOffsets == {<<0, 0>>, <<7, 26>>}
PreviewCrops ==
    {Missing} \cup
    { [x |-> o[1], y |-> o[2], width |-> w, height |-> h] :
        o \in PreviewOffsets, w \in PreviewSides, h \in PreviewSides }
PreviewImages ==
    {Missing, [width |-> 0, height |-> 200], [width |-> 300, height |-> 0],
     [width |-> 300, height |-> 200]}
PreviewMeasured ==
    { [width |-> m[1], height |-> m[2]] :
        m \in {<<0, 0>>, <<160, 0>>, <<160, 160>>, <<128, 96>>} }
PreviewInputs ==
    [component : {"Thumbnail", "SingleCropPreview"}, image : PreviewImages,
     crop : PreviewCrops, measured : PreviewMeasured]

InitPreview ==
    /\ det = DetIdle
    /\ cls = ClsIdle
    /\ rem = RemIdle
    /\ exp = ExpIdle
    /\ pv = PvIdle
    /\ ed = EdIdle
    /\ app = AppIdle

NextPreview ==
    \/ \E input \in PreviewInputs : PreviewMount(input)
    \/ PreviewPlaceholder
    \/ PreviewRatios
    \/ PreviewScale
    \/ PreviewTransform
    \/ PreviewLayoutEffect

SpecPreview == InitPreview /\ [][NextPreview]_vars

(***************************************************************************)
(* The editing of the selected crop: the number inputs of Controls         *)
(* (src/unnamed/part_000) and the drags of CropEditor                      *)
(* (src/components/CropEditor.tsx), each ending in onCropChange, which     *)
(* replaces the crop of the same id (handleCropChange).  A handle is the   *)
(* sequence of the characters of its name, the empty sequence standing for *)
(* null.  ed.last names the handler that ran last.  The numbers are whole  *)
(* pixels: parseInt gives the inputs, and the deltas are those of a        *)
(* display scale of 1.                                                     *)
(***************************************************************************)
OthersUnchangedByEdit == UNCHANGED <<det, cls, rem, exp, pv, app>>

\* type Handle = 'n' | 's' | 'e' | 'w' | 'ne' | 'nw' | 'se' | 'sw' | 'move'
move == <<"m", "o", "v", "e">>

Handles ==
    { <<"n">>, <<"s">>, <<"e">>, <<"w">>, <<"n", "e">>, <<"n", "w">>, <<"s", "e">>,
      <<"s", "w">>, move }

\* activeHandle.includes('e'): the character occurs in the name.
includes(handle, letter) == \E k \in DOMAIN handle : handle[k] = letter

\* const minSize = 20
minSize == 20

\* The crop handed to onCropChange for a selected crop and a value that is
\* a number.
handleInputChange(selectedCrop, field, value, imageWidth, imageHeight) ==
    LET newCrop == [selectedCrop EXCEPT ![field] = value]
    IN  IF field = "x" /\ value + newCrop.width > imageWidth
        THEN [newCrop EXCEPT !.x = imageWidth - newCrop.width]
        ELSE IF field = "y" /\ value + newCrop.height > imageHeight
        THEN [newCrop EXCEPT !.y = imageHeight - newCrop.height]
        ELSE IF field = "width" /\ newCrop.x + value > imageWidth
        THEN [newCrop EXCEPT !.width = imageWidth - newCrop.x]
        ELSE IF field = "height" /\ newCrop.y + value > imageHeight
        THEN [newCrop EXCEPT !.height = imageHeight - newCrop.y]
        ELSE newCrop

\* The crop handed to onCropChange by a pointer move, from the crop of the
\* drag's start: the assignments of the handler in their order.
handleInteractionMove(start, activeHandle, deltaX, deltaY, image) ==
    LET widthE == IF includes(activeHandle, "e") THEN start.width + deltaX ELSE start.width
        widthW == IF includes(activeHandle, "w") THEN widthE - deltaX ELSE widthE
        xW == IF includes(activeHandle, "w") THEN start.x + deltaX ELSE start.x
        heightS == IF includes(activeHandle, "s") THEN start.height + deltaY ELSE start.height
        heightN == IF includes(activeHandle, "n") THEN heightS - deltaY ELSE heightS
        yN == IF includes(activeHandle, "n") THEN start.y + deltaY ELSE start.y
        xMoved == IF activeHandle = move THEN xW + deltaX ELSE xW
        yMoved == IF activeHandle = move THEN yN + deltaY ELSE yN
        xMin == IF widthW < minSize /\ includes(activeHandle, "w")
                THEN start.x + start.width - minSize ELSE xMoved
        widthMin == IF widthW < minSize THEN minSize ELSE widthW
        yMin == IF heightN < minSize /\ includes(activeHandle, "n")
                THEN start.y + start.height - minSize ELSE yMoved
        heightMin == IF heightN < minSize THEN minSize ELSE heightN
        x == IF activeHandle = move THEN Max(0, Min(xMin, image.width - widthMin))
             ELSE Max(0, xMin)
        y == IF activeHandle = move THEN Max(0, Min(yMin, image.height - heightMin))
             ELSE Max(0, yMin)
        width == IF activeHandle = move THEN widthMin ELSE Min(widthMin, image.width - x)
        height == IF activeHandle = move THEN heightMin ELSE Min(heightMin, image.height - y)
    IN  [start EXCEPT !.x = x, !.y = y, !.width = width, !.height = height]

\* handleCropChange on the crops of the editor: the crop of the same id is
\* replaced.
handleCropChange(crop, updatedCrop) == IF crop.id = updatedCrop.id THEN updatedCrop ELSE crop

\* onChange(parseInt(e.target.value, 10)) of the input of a field.
EditInputChange(field, value) ==
    /\ ed.pc = "editing"
    /\ ed.edits < MaxEdits
    /\ ed' = [ed EXCEPT !.crop = handleCropChange(ed.crop,
                                     handleInputChange(ed.crop, field, value,
                                                       ed.image.width, ed.image.height)),
                        !.last = "input", !.edits = ed.edits + 1]
    /\ OthersUnchangedByEdit

\* Pointer down on the crop ('move') or on one of its eight handles.
EditInteractionStart(handle) ==
    /\ ed.pc = "editing"
    /\ ed.edits < MaxEdits
    /\ ed' = [ed EXCEPT !.activeHandle = handle, !.startPos = [crop |-> ed.crop],
                        !.last = "start", !.edits = ed.edits + 1]
    /\ OthersUnchangedByEdit

\* if (!activeHandle || !startPos.current || !imageRef.current) return; ...
EditInteractionMove(deltaX, deltaY) ==
    /\ ed.pc = "editing"
    /\ ed.activeHandle # <<>>
    /\ ed.startPos # Missing
    /\ ed' = [ed EXCEPT !.crop = handleCropChange(ed.crop,
                                     handleInteractionMove(ed.startPos.crop, ed.activeHandle,
                                                           deltaX, deltaY, ed.image)),
                        !.last = "move"]
    /\ OthersUnchangedByEdit

\* setActiveHandle(null); startPos.current = null
EditInteractionEnd ==
    /\ ed.pc = "editing"
    /\ ed.activeHandle # <<>>
    /\ ed' = [ed EXCEPT !.activeHandle = <<>>, !.startPos = Missing, !.last = "end"]
    /\ OthersUnchangedByEdit

\* The first crop of an upload and the crop of Add Crop, on an image of
\* 60 x 40 pixels: a square of half, or of a quarter, of the smaller side in
\* the middle of the image.
centredCrop(image, percent) ==
    LET size == (Min(image.width, image.height) * percent) \div 100
    IN  [id |-> 1, x |-> (image.width - size) \div 2, y |-> (image.height - size) \div 2,
         width |-> size, height |-> size]

EditImage == [width |-> 60, height |-> 40]

EditInputs == { [image |-> EditImage, crop |-> centredCrop(EditImage, percent)] :
                    percent \in {50, 25} }

\* Pointer deltas: a little, and past the border of the image on either side.
EditDeltas == {-30, -5, 0, 30}

\* Values typed into a number input.
EditValues == {-5, 0, 30, 70}

InitEdit ==
    /\ \E input \in EditInputs :
           ed = [EdIdle EXCEPT !.pc = "editing", !.image = input.image, !.crop = input.crop]
    /\ det = DetIdle
    /\ cls = ClsIdle
    /\ rem = RemIdle
    /\ exp = ExpIdle
    /\ pv = PvIdle
    /\ app = AppIdle

NextEdit ==
    \/ \E field \in {"x", "y", "width", "height"} : \E value \in EditValues :
           EditInputChange(field, value)
    \/ \E handle \in Handles : EditInteractionStart(handle)
    \/ \E deltaX \in EditDeltas : \E deltaY \in EditDeltas : EditInteractionMove(deltaX, deltaY)
    \/ EditInteractionEnd

SpecEdit == InitEdit /\ [][NextEdit]_vars

(***************************************************************************)
(* The session: the state of App and the handlers that change it.  A       *)
(* handler that awaits is two steps, the part before the await and the     *)
(* part after it, and what it read from the state before the await is kept *)
(* in app.detecting, app.removing or app.downloading; the steps of other   *)
(* handlers may come between.  The setters of one part are one step (they  *)
(* are rendered together).  The upload input is always enabled; the        *)
(* buttons of Controls are enabled as isActionDisabled says.  An image is  *)
(* [id, width, height, matted], matted counting the background removals    *)
(* its url has been through, and a crop is [id, box], the box standing for *)
(* its x, y, width and height.  Date.now() is app.now, which a step of the *)
(* clock advances; Math.random() makes the ids of detected crops differ.   *)
(* app.last tells how the last step ended when it was the end of a         *)
(* detection or of a removal, with the value detectObjectsFromImage gave.  *)
(***************************************************************************)
OthersUnchangedBySession == UNCHANGED <<det, cls, rem, exp, pv, ed>>

\* A faulty variant: the buttons are disabled during an export only.
isActionDisabledByExport(a) == Len(a.images) = 0 \/ a.isLoading

\* const isActionDisabled = isDisabled || isLoading || isAutoCropping ||
\* isRemovingBackground, with isDisabled={images.length === 0}.
isActionDisabled(a) ==
    Len(a.images) = 0 \/ a.isLoading \/ a.isAutoCropping \/ a.isRemovingBackground

\* images.find(img => img.id === selectedImageId) || images[0], for images
\* that are not empty.
mainImage(a) ==
    IF \E k \in DOMAIN a.images : a.images[k].id = a.selectedImageId
    THEN a.images[CHOOSE k \in DOMAIN a.images :
                      /\ a.images[k].id = a.selectedImageId
                      /\ \A j \in 1..(k - 1) : a.images[j].id # a.selectedImageId]
    ELSE a.images[1]

\* crops.find(c => c.id === selectedCropId) || null
selectedCrop(a) ==
    IF \E k \in DOMAIN a.crops : a.crops[k].id = a.selectedCropId
    THEN a.crops[CHOOSE k \in DOMAIN a.crops :
                     /\ a.crops[k].id = a.selectedCropId
                     /\ \A j \in 1..(k - 1) : a.crops[j].id # a.selectedCropId]
    ELSE Missing

\* The files of an upload, read and sorted: file k of the instant now.
uploaded(n, now) ==
    [k \in 1..n |-> [id |-> <<"image", k, now>>, matted |-> 0]]

\* The crop of handleFileChange and of handleAddCrop: a square of a part
\* of the smaller side, in the middle of the image.
cropAt(image, part, now) == [id |-> <<"crop", now>>, box |-> part]

\* .then(imageData => { ... }) of handleFileChange.  With no image the
\* welcome screen replaces the editor, whose state is lost.
handleFileChange(a, imageData) ==
    IF Len(imageData) > 0
    THEN [a EXCEPT !.images = imageData, !.selectedImageId = imageData[1].id,
                   !.crops = <<cropAt(imageData[1], "half", a.now)>>,
                   !.selectedCropId = <<"crop", a.now>>]
    ELSE [a EXCEPT !.images = imageData, !.selectedImageId = null, !.crops = <<>>,
                   !.selectedCropId = null, !.activeHandle = <<>>, !.startPos = Missing]

handleAddCrop(a) ==
    LET newCrop == cropAt(mainImage(a), "quarter", a.now)
    IN  [a EXCEPT !.crops = Append(a.crops, newCrop), !.selectedCropId = newCrop.id]

\* A faulty variant: the selection is left as it was.
newSelectedIdKept(a, newCrops) == a.selectedCropId

\* const newSelectedId = newCrops.length > 0 ? newCrops[0].id : null
newSelectedId(a, newCrops) == IF Len(newCrops) > 0 THEN newCrops[1].id ELSE null

handleDeleteCrop(a) ==
    IF a.selectedCropId = null THEN a
    ELSE LET RECURSIVE filter(_)
             filter(k) == IF k > Len(a.crops) THEN <<>>
                          ELSE IF a.crops[k].id # a.selectedCropId
                          THEN <<a.crops[k]>> \o filter(k + 1)
                          ELSE filter(k + 1)
             newCrops == filter(1)
         IN  [a EXCEPT !.crops = newCrops, !.selectedCropId = newSelectedId(a, newCrops)]

\* A faulty variant: nothing detected is taken for a failure, and the crops
\* are left as they were.
detectedKeepingCrops(a, detectedCrops) ==
    IF Len(detectedCrops) > 0
    THEN LET newCrops == [k \in DOMAIN detectedCrops |->
                              [id |-> <<"crop", a.now, k>>, box |-> detectedCrops[k]]]
         IN  [a EXCEPT !.crops = newCrops, !.selectedCropId = newCrops[1].id,
                       !.isAutoCropping = FALSE]
    ELSE [a EXCEPT !.isAutoCropping = FALSE]

\* The try block of handleAutoDetectObjects after detectObjectsFromImage
\* has returned, and its finally block.
detected(a, detectedCrops) ==
    IF Len(detectedCrops) > 0
    THEN LET newCrops == [k \in DOMAIN detectedCrops |->
                              [id |-> <<"crop", a.now, k>>, box |-> detectedCrops[k]]]
         IN  [a EXCEPT !.crops = newCrops, !.selectedCropId = newCrops[1].id,
                       !.isAutoCropping = FALSE]
    ELSE [a EXCEPT !.crops = <<>>, !.selectedCropId = null, !.isAutoCropping = FALSE]

\* The value of removeImageBackground for an image: a new url, or the image
\* itself when the canvas gave no context.
matted(image, noContext) ==
    IF noContext THEN image ELSE [image EXCEPT !.matted = image.matted + 1]

\* The crop handed to onCropChange by an input or by a pointer move:
\* { ...crop, x, y, width, height }.
edited(crop) == [crop EXCEPT !.box = "edited"]

\* A handler is waiting for what it awaits.
Pending == [pending |-> TRUE]

\* A step that is the end of neither a detection nor a removal.
Other == [step |-> "other"]

\* A step of the clock.
SessionTick ==
    /\ app.pc = "mounted"
    /\ app.now < MaxNow
    /\ app' = [app EXCEPT !.now = app.now + 1, !.last = Other]
    /\ OthersUnchangedBySession

\* The files of an upload have all been read.  (When one cannot be read the
\* catch logs it and no state changes.)
SessionUpload(n) ==
    /\ app.pc = "mounted"
    /\ app' = [handleFileChange(app, uploaded(n, app.now)) EXCEPT !.last = Other]
    /\ OthersUnchangedBySession

\* onClick={() => setSelectedImageId(img.id)} of a thumbnail.
SessionSelectImage(k) ==
    /\ app.pc = "mounted"
    /\ k \in DOMAIN app.images
    /\ app' = [app EXCEPT !.selectedImageId = app.images[k].id, !.last = Other]
    /\ OthersUnchangedBySession

SessionAddCrop ==
    /\ app.pc = "mounted"
    /\ ~isActionDisabled(app)
    /\ Len(app.crops) < MaxCrops
    /\ app' = [handleAddCrop(app) EXCEPT !.last = Other]
    /\ OthersUnchangedBySession

\* disabled={isActionDisabled || !isCropSelected}
SessionDeleteCrop ==
    /\ app.pc = "mounted"
    /\ ~isActionDisabled(app)
    /\ selectedCrop(app) # Missing
    /\ app' = [handleDeleteCrop(app) EXCEPT !.last = [step |-> "deleted"]]
    /\ OthersUnchangedBySession

\* onClick of a crop of the editor, or of a crop preview.
SessionSelectCrop(k) ==
    /\ app.pc = "mounted"
    /\ k \in DOMAIN app.crops
    /\ Len(app.images) > 0
    /\ app' = [app EXCEPT !.selectedCropId = app.crops[k].id, !.last = Other]
    /\ OthersUnchangedBySession

\* handleContainerClick when no colour is being picked: onSelectCrop(null).
SessionContainerClick ==
    /\ app.pc = "mounted"
    /\ Len(app.images) > 0
    /\ app' = [app EXCEPT !.selectedCropId = null, !.last = Other]
    /\ OthersUnchangedBySession

\* handleInteractionStart on crop k: by its body, or by a handle when it is
\* the selected crop.
SessionInteractionStart(k, handle) ==
    /\ app.pc = "mounted"
    /\ k \in DOMAIN app.crops
    /\ Len(app.images) > 0
    /\ handle = move \/ app.crops[k].id = app.selectedCropId
    /\ app' = [app EXCEPT !.selectedCropId = app.crops[k].id, !.activeHandle = handle,
                          !.startPos = [crop |-> app.crops[k]], !.last = Other]
    /\ OthersUnchangedBySession

\* handleInteractionMove, then handleCropChange: the crop of the id of the
\* drag's start is replaced, if it is still there.
SessionInteractionMove ==
    /\ app.pc = "mounted"
    /\ app.activeHandle # <<>>
    /\ app.startPos # Missing
    /\ app' = [app EXCEPT !.crops = [k \in DOMAIN app.crops |->
                                        handleCropChange(app.crops[k],
                                                         edited(app.startPos.crop))],
                          !.last = Other]
    /\ OthersUnchangedBySession

SessionInteractionEnd ==
    /\ app.pc = "mounted"
    /\ app.activeHandle # <<>>
    /\ app' = [app EXCEPT !.activeHandle = <<>>, !.startPos = Missing, !.last = Other]
    /\ OthersUnchangedBySession

\* A value typed into a number input: disabled={!isCropSelected}.
SessionInputChange ==
    /\ app.pc = "mounted"
    /\ Len(app.images) > 0
    /\ selectedCrop(app) # Missing
    /\ app' = [app EXCEPT !.crops = [k \in DOMAIN app.crops |->
                                        handleCropChange(app.crops[k],
                                                         edited(selectedCrop(app)))],
                          !.last = Other]
    /\ OthersUnchangedBySession

\* handleAutoDetectObjects up to its first await.
SessionDetectBegin ==
    /\ app.pc = "mounted"
    /\ ~isActionDisabled(app)
    /\ app' = [app EXCEPT !.isAutoCropping = TRUE,
                          !.detecting = Pending,
                          !.last = Other]
    /\ OthersUnchangedBySession

\* detectObjectsFromImage has returned detectedCrops.
SessionDetected(detectedCrops) ==
    /\ app.pc = "mounted"
    /\ app.detecting # Missing
    /\ app' = [detected(app, detectedCrops) EXCEPT
                   !.detecting = Missing,
                   !.last = [step |-> "detected", detectedCrops |-> detectedCrops]]
    /\ OthersUnchangedBySession

\* detectObjectsFromImage has rejected (the image did not load): catch, finally.
SessionDetectFails ==
    /\ app.pc = "mounted"
    /\ app.detecting # Missing
    /\ app' = [app EXCEPT !.isAutoCropping = FALSE, !.detecting = Missing,
                          !.last = [step |-> "detect failed"]]
    /\ OthersUnchangedBySession

\* handleRemoveBackground up to its await: images.map(...) reads the images
\* of this render.
SessionRemoveBegin ==
    /\ app.pc = "mounted"
    /\ ~isActionDisabled(app)
    /\ \A k \in DOMAIN app.images : app.images[k].matted < MaxRemovals
    /\ app' = [app EXCEPT !.isRemovingBackground = TRUE,
                          !.removing = [images |-> app.images],
                          !.last = Other]
    /\ OthersUnchangedBySession

\* A faulty variant: the images that were done when one failed are published.
SessionRemoveFailsHalfDone ==
    /\ app.pc = "mounted"
    /\ app.removing # Missing
    /\ app' = [app EXCEPT !.images = [k \in DOMAIN app.removing.images |->
                                          matted(app.removing.images[k], k > 1)],
                          !.isRemovingBackground = FALSE, !.removing = Missing,
                          !.last = [step |-> "remove failed"]]
    /\ OthersUnchangedBySession

\* Promise.all has resolved: setImages(updatedImages), finally.
SessionRemoved(noContext) ==
    /\ app.pc = "mounted"
    /\ app.removing # Missing
    /\ app' = [app EXCEPT !.images = [k \in DOMAIN app.removing.images |->
                                          matted(app.removing.images[k], k \in noContext)],
                          !.isRemovingBackground = FALSE, !.removing = Missing,
                          !.last = [step |-> "removed"]]
    /\ OthersUnchangedBySession

\* Promise.all has rejected (an image did not load): catch, finally.
SessionRemoveFails ==
    /\ app.pc = "mounted"
    /\ app.removing # Missing
    /\ app' = [app EXCEPT !.isRemovingBackground = FALSE, !.removing = Missing,
                          !.last = [step |-> "remove failed"]]
    /\ OthersUnchangedBySession

\* handleDownload up to its first await; with no crop it returns at once.
SessionDownloadBegin ==
    /\ app.pc = "mounted"
    /\ ~isActionDisabled(app)
    /\ Len(app.crops) # 0
    /\ app' = [app EXCEPT !.isLoading = TRUE,
                          !.downloading = Pending,
                          !.last = Other]
    /\ OthersUnchangedBySession

\* The finally block of handleDownload.
SessionDownloadEnds ==
    /\ app.pc = "mounted"
    /\ app.downloading # Missing
    /\ app' = [app EXCEPT !.isLoading = FALSE, !.downloading = Missing, !.last = Other]
    /\ OthersUnchangedBySession

\* Values of detectObjectsFromImage: nothing, one box, two boxes.
SessionDetections == { <<>>, <<"box A">>, <<"box B", "box A">> }

InitSession ==
    /\ app = [AppIdle EXCEPT !.pc = "mounted"]
    /\ det = DetIdle
    /\ cls = ClsIdle
    /\ rem = RemIdle
    /\ exp = ExpIdle
    /\ pv = PvIdle
    /\ ed = EdIdle

NextSession ==
    \/ SessionTick
    \/ \E n \in 0..MaxImages : SessionUpload(n)
    \/ \E k \in 1..MaxImages : SessionSelectImage(k)
    \/ SessionAddCrop
    \/ SessionDeleteCrop
    \/ \E k \in 1..MaxCrops : SessionSelectCrop(k)
    \/ SessionContainerClick
    \/ \E k \in 1..MaxCrops : \E handle \in {move, <<"w">>} : SessionInteractionStart(k, handle)
    \/ SessionInteractionMove
    \/ SessionInteractionEnd
    \/ SessionInputChange
    \/ SessionDetectBegin
    \/ \E detectedCrops \in SessionDetections : SessionDetected(detectedCrops)
    \/ SessionDetectFails
    \/ SessionRemoveBegin
    \/ \E noContext \in {{}, {1}} : SessionRemoved(noContext)
    \/ SessionRemoveFails
    \/ SessionDownloadBegin
    \/ SessionDownloadEnds

SpecSession == InitSession /\ [][NextSession]_vars

(***************************************************************************)
(* What the detector is to compute, stated without its queue: the          *)
(* 4-connected components of the non-background pixels.                    *)
(***************************************************************************)
Neighbours4(c) ==
    { <<c[1], c[2] + 1>>, <<c[1], c[2] - 1>>, <<c[1] + 1, c[2]>>, <<c[1] - 1, c[2]>> }

\* The cells of `among` joined to `seen` by a path of 4-neighbours inside `among`.
RECURSIVE Closure4(_, _, _)
Closure4(seen, frontier, among) ==
    LET new == ((UNION { Neighbours4(c) : c \in frontier }) \cap among) \ seen
    IN  IF new = {} THEN seen ELSE Closure4(seen \cup new, new, among)

RECURSIVE Components4(_)
Components4(among) ==
    IF among = {} THEN {}
    ELSE LET c == CHOOSE c \in among : TRUE
             comp == Closure4({c}, {c}, among)
         IN  {comp} \cup Components4(among \ comp)

MinOf(S) == CHOOSE m \in S : \A n \in S : m <= n
MaxOf(S) == CHOOSE m \in S : \A n \in S : m >= n

BoundingBox(comp) ==
    LET xs == { c[1] : c \in comp }
        ys == { c[2] : c \in comp }
    IN  [x |-> MinOf(xs), y |-> MinOf(ys),
         width |-> MaxOf(xs) - MinOf(xs) + 1, height |-> MaxOf(ys) - MinOf(ys) + 1]

\* The non-background cells of the detector's image under its options.
DetForeground ==
    { c \in Cells(det.image.width, det.image.height) :
        ~isBackground(det.image.url, det.options, det.bgColorRgb,
                      c[2] * det.image.width + c[1]) }

DetComponents == Components4(DetForeground)

\* A box passes the size filter: maxX - minX > 5 and maxY - minY > 5.
PassesFilter(box) == box.width - 1 > 5 /\ box.height - 1 > 5

BoxIndices == 1..Len(det.boundingBoxes)

\* C1: when detectObjectsFromImage returns, every box is the minimal bounding box
\* of one 4-connected component of the non-background pixels (diagonal contact
\* does not connect), and every component that passes the size filter has exactly
\* one box.
C1_BoxesAreComponents ==
    det.pc = "done" =>
        LET kept == { comp \in DetComponents : PassesFilter(BoundingBox(comp)) }
        IN  /\ \A k \in BoxIndices :
                  \E comp \in kept : det.boundingBoxes[k] = BoundingBox(comp)
            /\ \A comp \in kept :
                  Cardinality({ k \in BoxIndices :
                                  det.boundingBoxes[k] = BoundingBox(comp) }) = 1

\* The spec's example has run: two 10 x 10 blocks one background column apart gave
\* exactly the two boxes of the blocks.
C1_Witness ==
    /\ det.pc = "done"
    /\ det.image.id = "blocks" /\ det.image.width = 2 * BlockSize + 1
    /\ det.boundingBoxes =
          << [x |-> 0, y |-> 0, width |-> BlockSize, height |-> BlockSize],
             [x |-> BlockSize + 1, y |-> 0, width |-> BlockSize, height |-> BlockSize] >>

\* C2: a connected region has a box in the result if and only if
\* maxX - minX > 5 and maxY - minY > 5.
C2_KeptIffLargerThanFive ==
    det.pc = "done" =>
        \A comp \in DetComponents :
            LET box == BoundingBox(comp)
            IN  (\E k \in BoxIndices : det.boundingBoxes[k] = box)
                    <=> (box.width - 1 > 5 /\ box.height - 1 > 5)

\* A run has ended on an image with a 6 x 6 region (dropped), a 7 x 7 region
\* (kept), and nothing else in its result.
C2_Witness ==
    /\ det.pc = "done"
    /\ \E comp \in DetComponents :
          BoundingBox(comp).width = 6 /\ BoundingBox(comp).height = 6
    /\ \E comp \in DetComponents :
          /\ BoundingBox(comp).width = 7 /\ BoundingBox(comp).height = 7
          /\ det.boundingBoxes = << BoundingBox(comp) >>

\* The row-major number of the first pixel of a component.
FirstPixel(comp) == MinOf({ c[2] * det.image.width + c[1] : c \in comp })

RECURSIVE InScanOrder(_)
InScanOrder(comps) ==
    IF comps = {} THEN <<>>
    ELSE LET first == CHOOSE c \in comps : \A d \in comps : FirstPixel(c) <= FirstPixel(d)
         IN  << BoundingBox(first) >> \o InScanOrder(comps \ {first})

\* C3: the result lists the boxes in the row-major order of the first pixel of
\* their regions; it is a function of the image and the options alone.
C3_BoxesInScanOrder ==
    det.pc = "done" =>
        det.boundingBoxes =
            InScanOrder({ comp \in DetComponents : PassesFilter(BoundingBox(comp)) })

\* Two regions were reported, the first one found lying to the right of the second.
C3_Witness ==
    /\ det.pc = "done"
    /\ Len(det.boundingBoxes) = 2
    /\ det.boundingBoxes[1].x > det.boundingBoxes[2].x
    /\ det.boundingBoxes[1].y < det.boundingBoxes[2].y

DetPixels == 0..(det.image.width * det.image.height - 1)

\* C4: at every step of a run each pixel has been marked visited at most once and
\* enqueued at most once, so both totals stay within width x height; when the
\* scan has ended every pixel is visited.
C4_VisitedAndQueuedOnce ==
    det.pc # "idle" =>
        /\ \A i \in DetPixels :
              /\ det.marks[i] <= 1 /\ det.pushes[i] <= 1
              /\ det.visited[i] <=> det.marks[i] = 1
        /\ det.marked <= det.image.width * det.image.height
        /\ det.pushed <= det.image.width * det.image.height
        /\ det.pc = "done" => \A i \in DetPixels : det.visited[i]

\* A run has ended in which a fill enqueued several pixels and background pixels
\* were marked by the scan.
C4_Witness ==
    /\ det.pc = "done"
    /\ det.pushed > 1
    /\ det.marked > det.pushed
    /\ det.marked = det.image.width * det.image.height

\* The colours the classifier's colour strings name, written out.
NamedColours == {Black, BlackNoHash, White, UpperRed}

NamedRgb(hex) ==
    CASE hex = Black -> <<0, 0, 0>>
      [] hex = BlackNoHash -> <<0, 0, 0>>
      [] hex = White -> <<255, 255, 255>>
      [] hex = UpperRed -> <<255, 0, 0>>

\* C5: isBackground answers, in transparent mode, whether alpha < 10, and in
\* colour mode whether the Euclidean RGB distance to the configured colour is
\* < 35 (its square < 35 * 35), whatever the pixel's alpha.
C5_IsBackground ==
    cls.pc = "done" =>
        LET px == cls.data[0]
        IN  /\ cls.options.mode = "transparent" => (cls.result <=> px.a < 10)
            /\ (cls.options.mode = "color" /\ cls.options.color \in NamedColours) =>
                  LET c == NamedRgb(cls.options.color)
                      dr == px.r - c[1]
                      dg == px.g - c[2]
                      db == px.b - c[3]
                  IN  cls.result <=> dr * dr + dg * dg + db * db < 35 * 35

\* A fully transparent pixel at distance exactly 35 of the colour was classified
\* in colour mode, as not background.
C5_Witness ==
    /\ cls.pc = "done"
    /\ cls.options = [mode |-> "color", color |-> Black]
    /\ cls.data[0] = Pixel(21, 28, 0, 0)
    /\ ~cls.result

(***************************************************************************)
(* What the background removal is to compute, stated without its queue.    *)
(***************************************************************************)
HexChars == {"0", "1", "2", "3", "4", "5", "6", "7", "8", "9",
             "a", "b", "c", "d", "e", "f", "A", "B", "C", "D", "E", "F"}

\* Exactly six hex digits, with an optional leading '#'.
WellFormedColor(hex) ==
    \/ Len(hex) = 6 /\ \A i \in 1..6 : hex[i] \in HexChars
    \/ Len(hex) = 7 /\ hex[1] = "#" /\ \A i \in 2..7 : hex[i] \in HexChars

RemWidth == rem.imageFile.width
RemHeight == rem.imageFile.height
RemPixels == 0..(RemWidth * RemHeight - 1)
RemCell(i) == <<i % RemWidth, i \div RemWidth>>
RemIndex(c) == c[2] * RemWidth + c[1]

\* The squared distance of the input colour of pixel i to the target colour.
RemDistSq(i) ==
    LET px == rem.imageFile.url[i]
        t == NamedRgb(rem.hexColor)
    IN  (px.r - t[1]) * (px.r - t[1]) + (px.g - t[2]) * (px.g - t[2])
            + (px.b - t[3]) * (px.b - t[3])

\* The cells within distance < 20 of the target.
RemMatching == { RemCell(i) : i \in { j \in RemPixels : RemDistSq(j) < 20 * 20 } }

RemBorder ==
    { c \in Cells(RemWidth, RemHeight) :
        c[1] = 0 \/ c[1] = RemWidth - 1 \/ c[2] = 0 \/ c[2] = RemHeight - 1 }

\* The matching cells joined to a matching border cell by a 4-connected path of
\* matching cells.
RemReachable ==
    Closure4(RemMatching \cap RemBorder, RemMatching \cap RemBorder, RemMatching)

\* A call with a colour that parses has returned.
RemReturned == rem.pc = "done" /\ rem.hexColor \in NamedColours

\* Pixel i has a 4-neighbour that Pass 1 removed.
NextToRemoved(i) ==
    \E c \in Neighbours4(RemCell(i)) \cap Cells(RemWidth, RemHeight) : rem.visited[RemIndex(c)]

\* C6: with a colour string that is not six hex digits after an optional '#', the
\* call returns the input record itself, pixels included, and has modified no
\* pixel, whatever the feather.
C6_UnparsableReturnsInput ==
    (rem.pc = "done" /\ ~WellFormedColor(rem.hexColor)) =>
        /\ rem.returned = "imageFile"
        /\ rem.result = rem.imageFile
        /\ rem.data = rem.imageFile.url

\* The call with "notacolor" and feather 100 has returned, on an image with a
\* border pixel of the colour a lenient parser would have removed.
C6_Witness ==
    /\ rem.pc = "done"
    /\ rem.hexColor = NotAColor /\ rem.feather = 100
    /\ rem.imageFile.url[0] = PxMatch
    /\ rem.result = rem.imageFile

\* C7: with feather = 0 the result has alpha 0 exactly on the pixels reachable
\* from a matching border pixel through matching pixels, and the input alpha
\* everywhere else.
C7_RemovesBorderConnected ==
    (RemReturned /\ rem.feather = 0) =>
        \A i \in RemPixels :
            rem.result.url[i].a =
                IF RemCell(i) \in RemReachable THEN 0 ELSE rem.imageFile.url[i].a

\* A feather-0 call has returned after removing a pixel that is not on the
\* border, reached through matching pixels, while leaving a matching pixel
\* that no such path reaches opaque.
C7_Witness ==
    /\ RemReturned /\ rem.feather = 0
    /\ \E i \in RemPixels :
          /\ RemCell(i) \notin RemBorder
          /\ rem.imageFile.url[i].a = 255 /\ rem.result.url[i].a = 0
    /\ \E i \in RemPixels :
          /\ RemCell(i) \in RemMatching \ RemReachable
          /\ rem.result.url[i].a = 255

\* C8: in a fully opaque image, a matching pixel that is not joined to a matching
\* border pixel through matching pixels keeps its alpha, for every feather.
C8_IslandSurvives ==
    (RemReturned /\ \A i \in RemPixels : rem.imageFile.url[i].a = 255) =>
        \A i \in RemPixels :
            (RemCell(i) \in RemMatching \ RemReachable) =>
                rem.result.url[i].a = rem.imageFile.url[i].a

\* A call with feather 25 has returned on an opaque image whose matching border
\* was removed and whose matching centre, enclosed by another colour, was kept.
C8_Witness ==
    /\ RemReturned /\ rem.feather = 25
    /\ rem.imageFile.id = "ring"
    /\ \A i \in RemPixels : rem.imageFile.url[i].a = 255
    /\ rem.result.url[0].a = 0
    /\ \E i \in RemPixels :
          /\ RemCell(i) \in RemMatching \ RemReachable
          /\ rem.result.url[i].a = 255

\* k is a nearest integer of alpha * sqrt(distSq) / feather.
NearestAlpha(k, alpha, distSq, feather) ==
    /\ k = 0 \/ ((2 * k - 1) * feather) * ((2 * k - 1) * feather)
                    <= 4 * alpha * alpha * distSq
    /\ 4 * alpha * alpha * distSq <= ((2 * k + 1) * feather) * ((2 * k + 1) * feather)

\* C9 as stated: with feather F > 0, every pixel at distance d < F that is
\* 4-adjacent to a pixel removed in Pass 1 ends with alpha originalAlpha * d / F
\* (to the nearest integer, the buffer holding bytes), also for d < 20.
C9_Original ==
    (RemReturned /\ rem.feather > 0) =>
        \A i \in RemPixels :
            (RemDistSq(i) < rem.feather * rem.feather /\ NextToRemoved(i)) =>
                NearestAlpha(rem.result.url[i].a, rem.imageFile.url[i].a,
                             RemDistSq(i), rem.feather)

\* C9 as amended: the same for the pixels Pass 1 did not remove; a pixel Pass 1
\* removed ends with alpha 0.
C9_FeatheredAlpha ==
    (RemReturned /\ rem.feather > 0) =>
        \A i \in RemPixels :
            /\ (~rem.visited[i] /\ RemDistSq(i) < rem.feather * rem.feather
                    /\ NextToRemoved(i)) =>
                  NearestAlpha(rem.result.url[i].a, rem.imageFile.url[i].a,
                               RemDistSq(i), rem.feather)
            /\ rem.visited[i] => rem.result.url[i].a = 0

\* A call with feather 50 has returned in which the grey pixel (distance
\* sqrt(1200)) next to a removed pixel went from alpha 255 to 177.
C9_Witness ==
    /\ RemReturned /\ rem.feather = 50
    /\ \E i \in RemPixels :
          /\ rem.imageFile.url[i] = PxGrey
          /\ ~rem.visited[i] /\ NextToRemoved(i)
          /\ rem.result.url[i].a = 177

\* C10: with feather F > 0, a pixel that Pass 1 did not remove and whose colour
\* is at distance >= F keeps its alpha, next to a transparent pixel or not.
C10_BeyondFeatherKept ==
    (RemReturned /\ rem.feather > 0) =>
        \A i \in RemPixels :
            (~rem.visited[i] /\ RemDistSq(i) >= rem.feather * rem.feather) =>
                rem.result.url[i].a = rem.imageFile.url[i].a

\* A call with feather 25 has returned in which the pixel of alpha 200 at
\* distance 50, next to a removed pixel, kept its alpha.
C10_Witness ==
    /\ RemReturned /\ rem.feather = 25
    /\ \E i \in RemPixels :
          /\ rem.imageFile.url[i] = PxHalf
          /\ NextToRemoved(i)
          /\ rem.result.url[i].a = 200

\* C11: when no border pixel is within distance < 20 of the target, the returned
\* pixel buffer equals the input buffer, for every feather and every image,
\* images with fully transparent pixels included.
C11_NoBorderMatchNoChange ==
    (RemReturned /\ RemMatching \cap RemBorder = {}) =>
        rem.result.url = rem.imageFile.url

ExpC == Len(exp.crops)
ExpM == Len(exp.images)

\* An export over at least one crop and one image has ended.
Exported == exp.pc = "done" /\ ExpC >= 1 /\ ExpM >= 1

\* C13 as stated: the export notifies the progress sink exactly C x M times, each
\* time with total = C x M and a processed value above the previous one, the
\* last with processed = total.
C13_Original ==
    Exported =>
        /\ Len(exp.progress) = ExpC * ExpM
        /\ \A n \in 1..Len(exp.progress) : exp.progress[n].total = ExpC * ExpM
        /\ \A n \in 2..Len(exp.progress) :
              exp.progress[n].processed > exp.progress[n - 1].processed
        /\ exp.progress[Len(exp.progress)].processed = ExpC * ExpM

\* C13 as amended: the sink is called first with processed = 0, then once per
\* processed item with processed = 1, 2, ..., each time with total = C x M, and
\* last with the clearing value; the items are all C x M when every image
\* loads and every archive is generated, and the export stops where an image
\* does not load or an archive is not generated.
C13_ProgressNotifications ==
    Exported =>
        LET P == exp.processedCount
        IN  /\ Len(exp.progress) = P + 2
            /\ \A n \in 1..(P + 1) :
                  exp.progress[n] = [processed |-> n - 1, total |-> ExpC * ExpM]
            /\ exp.progress[P + 2] = NoProgress
            /\ IF exp.alerted THEN P <= ExpC * ExpM ELSE P = ExpC * ExpM

\* An export of two crops of two images has ended without a load failure, with
\* an item that failed, after six calls of the sink.
C13_Witness ==
    /\ Exported /\ ExpC = 2 /\ ExpM = 2
    /\ ~exp.alerted /\ exp.failures > 0
    /\ Len(exp.progress) = 6
    /\ exp.progress[5] = [processed |-> 4, total |-> 4]

\* C14: the items are processed crop by crop and, within a crop, in the order
\* of the image collection, and the archive of a crop is emitted after its last
\* image and before the first image of the next crop: the n-th event of an
\* export is the item (i, k) or the archive of crop i that this order puts in
\* place n.
C14_CropMajorOrder ==
    \A n \in 1..Len(exp.events) :
        LET i == (n - 1) \div (ExpM + 1)
            k == (n - 1) % (ExpM + 1)
        IN  /\ exp.events[n].i = i
            /\ IF k < ExpM
               THEN exp.events[n].what # "archive" /\ exp.events[n].k = k
               ELSE exp.events[n].what = "archive"

\* The second crop's first image has been processed, after both images and the
\* archive of the first crop.
C14_Witness ==
    /\ ExpC = 2 /\ ExpM = 2
    /\ Len(exp.events) = 4
    /\ exp.events[3].what = "archive"
    /\ exp.events[4] = [what |-> "file", i |-> 1, k |-> 0]
    /\ Len(exp.downloads) = 1

\* The digit that numbers the n-th of at most nine crops.
CropNumeral(n) == <<"1", "2", "3", "4", "5", "6", "7", "8", "9">>[n]

\* C15: with more than one crop the n-th archive (the crop at 0-based position
\* n - 1) is named <base>-crop-<n>.zip, so that no two archives share a name;
\* with one crop the archive is named <base>-crop.zip, without a number.
C15_ArchiveNames ==
    /\ \A n \in 1..Len(exp.downloads) :
          exp.downloads[n].download =
              IF ExpC > 1
              THEN exp.zipFileNameBase \o <<"-crop-", CropNumeral(n), ".zip">>
              ELSE exp.zipFileNameBase \o <<"-crop.zip">>
    /\ \A n, o \in 1..Len(exp.downloads) :
          n # o => exp.downloads[n].download # exp.downloads[o].download

\* Two archives have been emitted for images whose first is "b.x.gif": the names
\* are b.x-crop-1.zip and b.x-crop-2.zip.
C15_Witness ==
    /\ exp.pc = "done" /\ ExpC = 2
    /\ Len(exp.downloads) = 2
    /\ exp.downloads[1].download = <<"b", ".", "x", "-crop-", "1", ".zip">>
    /\ exp.downloads[2].download = <<"b", ".", "x", "-crop-", "2", ".zip">>

\* The events of the items that got no context or no blob.
FailedItems ==
    { n \in 1..Len(exp.events) : exp.events[n].what \in {"no context", "no blob"} }

\* C16: an item that gets no drawing context, or no blob, is counted in the
\* progress counter, adds no file to the zip, and is followed by the next item
\* or by the archive of its crop, which is emitted even when every item of the
\* crop failed that way (unless the generation of the archive itself throws); no
\* emitted archive holds a file of a failed item.
C16_FailedItemSkipped ==
    /\ [][(exp.pc = "item" /\ Len(exp'.events) > Len(exp.events)
              /\ exp'.events[Len(exp'.events)].what \in {"no context", "no blob"}) =>
            /\ exp'.processedCount = exp.processedCount + 1
            /\ exp'.progress[Len(exp'.progress)].processed = exp.processedCount + 1
            /\ exp'.zip = exp.zip
            /\ exp'.pc = IF exp.k + 1 < ExpM THEN "item" ELSE "archive"
            /\ exp'.i = exp.i /\ exp'.k = exp.k + 1
            /\ ~exp'.alerted]_vars
    /\ [][(exp.pc = "archive" /\ ~exp'.alerted) =>
            /\ Len(exp'.downloads) = Len(exp.downloads) + 1
            /\ exp'.downloads[Len(exp'.downloads)].files = exp.zip]_vars
    /\ [](\A n \in FailedItems :
            \A a \in 1..Len(exp.downloads) :
                \A f \in exp.downloads[a].files :
                    ~(exp.events[n].i = a - 1
                        /\ f.image = exp.images[exp.events[n].k + 1].id))

\* An export of two crops has ended in which both images of the first crop
\* failed, one for want of a context and one for want of a blob: all four items
\* were counted, the first archive is empty, the second is not.
C16_Witness ==
    /\ Exported /\ ExpC = 2 /\ ExpM = 2
    /\ exp.processedCount = 4
    /\ Len(exp.downloads) = 2
    /\ exp.events[1].what = "no context" /\ exp.events[2].what = "no blob"
    /\ exp.downloads[1].files = {}
    /\ exp.downloads[2].files # {}

\* C17: an export that ends without a failed item has emitted C archives, one
\* per crop, each holding M files, one per image and named with ".png" at the
\* end, whatever the images (their ids are distinct); with one crop and one
\* image the one file measures crop.width x crop.height (the crop's sides are
\* counted in half pixels, the file's in pixels).
C17_OneFilePerImage ==
    (Exported /\ exp.failures = 0) =>
        /\ Len(exp.downloads) = ExpC
        /\ \A a \in 1..Len(exp.downloads) :
              /\ Cardinality(exp.downloads[a].files) = ExpM
              /\ \A k \in 1..ExpM :
                    \E f \in exp.downloads[a].files :
                        /\ f.image = exp.images[k].id
                        /\ f.crop = exp.crops[a].id
                        /\ f.fileName[Len(f.fileName)] = ".png"
        /\ (ExpC = 1 /\ ExpM = 1) =>
              \A f \in exp.downloads[1].files :
                  /\ 2 * f.width = exp.crops[1].width
                  /\ 2 * f.height = exp.crops[1].height

(***************************************************************************)
(* The previews.  The claims speak of real numbers; what the components    *)
(* compute are doubles, so the products below are taken exactly, of the    *)
(* scale the component computed.                                           *)
(***************************************************************************)
\* c * x, exactly.
ExactTimes(c, x) == Double((c < 0) # x.neg, BitsTimes(x.mag, IF c < 0 THEN -c ELSE c))

\* x * 2^-k, for an x whose last k bits are zero.
Shift(x, k) == [x EXCEPT !.mag = SubSeq(x.mag, k + 1, Len(x.mag))]

\* halves / 2 * s, exactly.
ExactPixels(halves, s) == Shift(ExactTimes(halves, s), 1)

LessEq(x, y) == ~Less(y, x)

\* |x - y|, exactly.
Distance(x, y) == [ExactPlus(x, Negate(y)) EXCEPT !.neg = FALSE]

\* The scale has been computed for a container of positive width and height.
PvScaled ==
    /\ "scale" \in pv.computed
    /\ pv.containerSize.width > 0
    /\ pv.containerSize.height > 0

\* crop.width / crop.height compared with the ratio of the container, exactly.
PvWider ==
    pv.crop.width * pv.containerSize.height > pv.containerSize.width * pv.crop.height
PvSameRatio ==
    pv.crop.width * pv.containerSize.height = pv.containerSize.width * pv.crop.height

\* The scale the claim names.
PvClaimedScale ==
    IF PvWider THEN Divide(2 * pv.containerSize.height, pv.crop.height)
    ELSE Divide(2 * pv.containerSize.width, pv.crop.width)

PvScaledCropWidth == ExactPixels(pv.crop.width, pv.scale)
PvScaledCropHeight == ExactPixels(pv.crop.height, pv.scale)

\* C18, as stated: for a crop and a container of positive width and height the
\* scale is height / height when the crop is the wider and width / width
\* otherwise, and the scaled crop covers the container: crop.width * scale >=
\* width and crop.height * scale >= height, with equality in at least one
\* dimension, in both when the ratios are equal.
C18_Original ==
    PvScaled =>
        /\ pv.scale = PvClaimedScale
        /\ LessEq(FromInt(pv.containerSize.width), PvScaledCropWidth)
        /\ LessEq(FromInt(pv.containerSize.height), PvScaledCropHeight)
        /\ \/ PvScaledCropWidth = FromInt(pv.containerSize.width)
           \/ PvScaledCropHeight = FromInt(pv.containerSize.height)
        /\ PvSameRatio =>
              /\ PvScaledCropWidth = FromInt(pv.containerSize.width)
              /\ PvScaledCropHeight = FromInt(pv.containerSize.height)

\* What the rounding of the quotient allows: length * 2^-53.
PvRounding(length) == Shift(FromInt(length), SignificandBits)

PvCovers(scaled, length) == LessEq(FromInt(length), ExactPlus(scaled, PvRounding(length)))
PvMeets(scaled, length) == LessEq(Distance(scaled, FromInt(length)), PvRounding(length))

\* C18, amended: the scale is the quotient the claim names, rounded to a double,
\* and the scaled crop covers the container up to that rounding: crop.width *
\* scale >= width * (1 - 2^-53) and crop.height * scale >= height * (1 - 2^-53),
\* and the scaled crop is within length * 2^-53 of the container in at least one
\* dimension, in both when the ratios are equal.
C18_ScaleCoversWithinRounding ==
    PvScaled =>
        /\ pv.scale = PvClaimedScale
        /\ PvCovers(PvScaledCropWidth, pv.containerSize.width)
        /\ PvCovers(PvScaledCropHeight, pv.containerSize.height)
        /\ \/ PvMeets(PvScaledCropWidth, pv.containerSize.width)
           \/ PvMeets(PvScaledCropHeight, pv.containerSize.height)
        /\ PvSameRatio =>
              /\ PvMeets(PvScaledCropWidth, pv.containerSize.width)
              /\ PvMeets(PvScaledCropHeight, pv.containerSize.height)

\* A thumbnail of a 38.5 pixel square crop in its 160 pixel container: the
\* scaled crop is narrower than the container.
C18_Witness ==
    /\ PvScaled
    /\ pv.pc = "rendered"
    /\ pv.returned = "image"
    /\ pv.component = "Thumbnail"
    /\ pv.crop.width = 77
    /\ pv.crop.height = 77
    /\ pv.containerSize.width = 160
    /\ Less(PvScaledCropWidth, FromInt(160))

\* x * 2^k, exactly.
ShiftUp(x, k) == [x EXCEPT !.mag = IF x.mag = <<>> THEN <<>> ELSE Zeros(k) \o x.mag]

PvTranslated == "translateX" \in pv.computed

\* The translation the claim names: -(offset * scale) + (length - side * scale) / 2
\* with the scale the component computed.
PvClaimedTranslate(offset, side, length) ==
    Plus(Negate(Half(Times(offset, pv.scale))),
         Half(Minus(FromInt(length), Half(Times(side, pv.scale)))))

\* Where the centre of the crop lands: translate + (offset + side / 2) * scale,
\* exactly; offset and side are half pixels.
PvCentre(translated, offset, side) ==
    ExactPlus(translated, Shift(ExactTimes(2 * offset + side, pv.scale), 2))

\* C19, as stated: translateX = -(crop.x * scale) + (width - crop.width * scale)
\* / 2 and the same for y, and the centre of the crop is mapped to the centre of
\* the container: translateX + (crop.x + crop.width / 2) * scale = width / 2, and
\* likewise for y.
C19_Original ==
    PvTranslated =>
        /\ pv.translateX =
              PvClaimedTranslate(pv.crop.x, pv.crop.width, pv.containerSize.width)
        /\ pv.translateY =
              PvClaimedTranslate(pv.crop.y, pv.crop.height, pv.containerSize.height)
        /\ PvCentre(pv.translateX, pv.crop.x, pv.crop.width) =
              Half(FromInt(pv.containerSize.width))
        /\ PvCentre(pv.translateY, pv.crop.y, pv.crop.height) =
              Half(FromInt(pv.containerSize.height))

\* The centre lands within 2^-52 * (offset * scale + side * scale + length) of
\* the centre of the container.
PvCentred(translated, offset, side, length) ==
    LessEq(ShiftUp(Distance(PvCentre(translated, offset, side), Half(FromInt(length))),
                   SignificandBits - 1),
           ExactPlus(ExactPixels(offset + side, pv.scale), FromInt(length)))

\* C19, amended: the translations are the doubles the formula gives, each
\* product, difference and sum rounded, and for a crop with x >= 0 and y >= 0 the
\* centre of the crop is mapped to the centre of the container up to those
\* roundings: |translateX + (crop.x + crop.width / 2) * scale - width / 2| <=
\* 2^-52 * (crop.x * scale + crop.width * scale + width), and likewise for y.
C19_CentreWithinRounding ==
    PvTranslated =>
        /\ pv.translateX =
              PvClaimedTranslate(pv.crop.x, pv.crop.width, pv.containerSize.width)
        /\ pv.translateY =
              PvClaimedTranslate(pv.crop.y, pv.crop.height, pv.containerSize.height)
        /\ PvCentred(pv.translateX, pv.crop.x, pv.crop.width, pv.containerSize.width)
        /\ PvCentred(pv.translateY, pv.crop.y, pv.crop.height, pv.containerSize.height)

\* A crop preview of a crop 1.5 pixels wide at x = 3.5 in a container measured
\* 128 pixels wide: the centre of the crop lands off the centre of the container.
C19_Witness ==
    /\ PvTranslated
    /\ pv.pc = "rendered"
    /\ pv.component = "SingleCropPreview"
    /\ ~pv.effect
    /\ pv.containerSize.width = 128
    /\ pv.crop.width = 3
    /\ pv.crop.x = 7
    /\ PvCentre(pv.translateX, pv.crop.x, pv.crop.width) # Half(FromInt(128))

\* The crop or the image is missing or has a width or a height <= 0.
PvDegenerate ==
    \/ pv.crop = Missing
    \/ pv.crop.width <= 0
    \/ pv.crop.height <= 0
    \/ pv.image = Missing
    \/ pv.image.width <= 0
    \/ pv.image.height <= 0

\* C20: with a crop or an image that is missing or has a width or a height <= 0
\* the component assigns none of its locals (no ratio, no scale) and returns the
\* placeholder; no quotient a component computes is a division by zero (each
\* is a finite double); and for a container with a zero dimension the ratio of
\* the container is 1.
C20_PlaceholderBeforeScale ==
    /\ (pv.pc # "idle" /\ PvDegenerate) =>
          /\ pv.computed = {}
          /\ pv.pc \in {"render", "rendered"}
          /\ pv.pc = "rendered" => pv.returned = "placeholder"
    /\ pv.cropAspectRatio.finite
    /\ pv.containerAspectRatio.finite
    /\ pv.scale.finite
    /\ ( /\ "containerAspectRatio" \in pv.computed
         /\ (pv.containerSize.width = 0 \/ pv.containerSize.height = 0) ) =>
          pv.containerAspectRatio = FromInt(1)

\* A thumbnail of a crop of height 0 of a good image has returned the
\* placeholder.
C20_Witness ==
    /\ pv.pc = "rendered"
    /\ pv.returned = "placeholder"
    /\ pv.component = "Thumbnail"
    /\ pv.image # Missing
    /\ pv.crop # Missing
    /\ pv.image.width > 0
    /\ pv.image.height > 0
    /\ pv.crop.width > 0
    /\ pv.crop.height = 0

\* Pass 2 is under way or has been made: the snapshot of Pass 1 has been taken.
RemFeathering ==
    \/ rem.pc = "feather"
    \/ rem.pc = "done" /\ rem.returned = "object literal" /\ rem.feather > 0

\* Pass 2 has dealt with pixel i.
RemFeathered(i) == rem.pc = "done" \/ i < rem.y * RemWidth + rem.x

\* Pixel i had alpha > 0 and a 4-neighbour of alpha 0 in the snapshot of Pass 1.
RemSnapshotEdge(i) ==
    /\ rem.postFloodFillData[i].a > 0
    /\ \E j \in RemPixels :
          /\ \/ RemCell(j)[1] = RemCell(i)[1] /\ RemCell(j)[2] - RemCell(i)[2] \in {-1, 1}
             \/ RemCell(j)[2] = RemCell(i)[2] /\ RemCell(j)[1] - RemCell(i)[1] \in {-1, 1}
          /\ rem.postFloodFillData[j].a = 0

\* The alphas the two snapshots give pixel i.
RemSnapshotAlphas(i) ==
    IF RemSnapshotEdge(i) /\ RemDistSq(i) < rem.feather * rem.feather
    THEN FeatherAlphas(rem.originalData[i].a, RemDistSq(i), rem.feather)
    ELSE {rem.postFloodFillData[i].a}

\* C24: in Pass 2 the alpha of a pixel is a function of the snapshot of Pass 1
\* and of the original pixels alone, whatever Pass 2 has written before it: a
\* pixel Pass 2 has dealt with has the alpha the snapshots give it, and a pixel
\* it has not reached yet is as Pass 1 left it.  So the outcome is that of any
\* order of visit, and a pixel feathered down to alpha 0 makes no edge of its
\* neighbours.
C24_FeatherFromSnapshots ==
    RemFeathering =>
        \A i \in RemPixels :
            IF RemFeathered(i)
            THEN rem.data[i].a \in RemSnapshotAlphas(i)
            ELSE rem.data[i] = rem.postFloodFillData[i]

\* A returned call with feather 100 on the row (30, 40, 0, 0), (12, 16, 0, 1),
\* (30, 40, 0, 200): the middle pixel was feathered down to alpha 0 and the
\* right one, at distance 50 < 100 of the target, kept its alpha 200.
C24_Witness ==
    /\ RemReturned
    /\ rem.feather = 100
    /\ RemWidth = 3
    /\ RemHeight = 1
    /\ rem.imageFile.url[0] = PxClear
    /\ rem.imageFile.url[1] = PxFaint
    /\ rem.imageFile.url[2] = PxHalf
    /\ rem.result.url[1].a = 0
    /\ rem.result.url[2].a = 200

\* C27: a call never changes the red, green or blue of a pixel and never raises
\* its alpha, in the buffer it works on at any step and in the pixels it
\* returns, for every image, colour and feather.
C27_ColourKeptAlphaNotRaised ==
    /\ rem.pc \notin {"idle", "parse"} =>
          \A i \in RemPixels :
              /\ rem.data[i].r = rem.imageFile.url[i].r
              /\ rem.data[i].g = rem.imageFile.url[i].g
              /\ rem.data[i].b = rem.imageFile.url[i].b
              /\ rem.data[i].a <= rem.imageFile.url[i].a
    /\ rem.pc = "done" =>
          \A i \in RemPixels :
              /\ rem.result.url[i].r = rem.imageFile.url[i].r
              /\ rem.result.url[i].g = rem.imageFile.url[i].g
              /\ rem.result.url[i].b = rem.imageFile.url[i].b
              /\ rem.result.url[i].a <= rem.imageFile.url[i].a

\* A returned call that removed one pixel and lowered the alpha of another to a
\* value above 0.
C27_Witness ==
    /\ RemReturned
    /\ \E i \in RemPixels : rem.imageFile.url[i].a > 0 /\ rem.result.url[i].a = 0
    /\ \E i \in RemPixels :
          /\ rem.result.url[i].a > 0
          /\ rem.result.url[i].a < rem.imageFile.url[i].a

\* C25: every export begun with images and crops ends, whether it ran to the
\* last archive or was ended by an image that does not load or by an archive
\* that is not generated, with isLoading false and the progress cleared; no
\* step of it changes the images or the crops; and handleDownload with no
\* image or no crop changes nothing of the state.
ExpEnded ==
    /\ exp.pc = "done"
    /\ ~exp.isLoading
    /\ exp.progress # <<>>
    /\ exp.progress[Len(exp.progress)] = NoProgress

C25_ExportEnds ==
    /\ (exp.pc = "start" /\ Len(exp.images) # 0 /\ Len(exp.crops) # 0) ~> ExpEnded
    /\ [][exp'.images = exp.images /\ exp'.crops = exp.crops]_vars
    /\ [][(exp.pc = "start" /\ (Len(exp.images) = 0 \/ Len(exp.crops) = 0))
             => exp' = [exp EXCEPT !.pc = "done"]]_vars

\* The last archive was not generated, after every item had been counted.
C25_Witness ==
    /\ ExpEnded
    /\ exp.alerted
    /\ ExpC = 2
    /\ exp.processedCount = ExpC * ExpM
    /\ Len(exp.downloads) = 1

\* C21: after any sequence of edits of a crop that began inside the image
\* (values typed into X, Y, Width and Height, drags of the crop and of its
\* handles), x >= 0, y >= 0, width > 0, height > 0, x + width <= imageWidth
\* and y + height <= imageHeight.
CropInside(crop, image) ==
    /\ crop.x >= 0
    /\ crop.y >= 0
    /\ crop.width > 0
    /\ crop.height > 0
    /\ crop.x + crop.width <= image.width
    /\ crop.y + crop.height <= image.height

C21_CropStaysInside == ed.pc = "editing" => CropInside(ed.crop, ed.image)

\* C30: while a handle is dragged the opposite edge stays where it was when
\* the drag began: x + width for a west handle, y + height for a north
\* handle, x for an east handle and y for a south handle, whatever the delta.
EdDragged == ed.pc = "editing" /\ ed.last = "move" /\ ed.activeHandle # move

EdStart == ed.startPos.crop

C30_OppositeEdgeStays ==
    EdDragged =>
        /\ includes(ed.activeHandle, "w") => ed.crop.x + ed.crop.width = EdStart.x + EdStart.width
        /\ includes(ed.activeHandle, "n") => ed.crop.y + ed.crop.height = EdStart.y + EdStart.height
        /\ includes(ed.activeHandle, "e") => ed.crop.x = EdStart.x
        /\ includes(ed.activeHandle, "s") => ed.crop.y = EdStart.y

\* C22: a background removal and a detection publish at once.  When one
\* fails, the images and the crops are left as they were; when a removal
\* succeeds, the images become, in the step that ends it, as many images in
\* the same order with the same ids as those it began with, and while it
\* runs the images change by an upload only; when a detection succeeds the
\* crops are replaced by the detected ones in one step, the images left as
\* they were.
SessionUploads == \E n \in 0..MaxImages : app'.images = uploaded(n, app.now)

RemovalEnds(how) == app.removing # Missing /\ app'.removing = Missing /\ app'.last.step = how

DetectionEnds(how) == app.detecting # Missing /\ app'.detecting = Missing /\ app'.last.step = how

C23_DetectedCropsPublished ==
    app.last.step = "detected" =>
        LET n == Len(app.last.detectedCrops)
        IN  /\ ~app.isAutoCropping
            /\ Len(app.crops) = n
            /\ \A k \in 1..n : app.crops[k].box = app.last.detectedCrops[k]
            /\ \A k \in 1..n : \A j \in 1..n : app.crops[k].id = app.crops[j].id => k = j
            /\ app.selectedCropId = IF n = 0 THEN null ELSE app.crops[1].id

\* Nothing was detected on an image whose crop was being dragged.
C23_Witness ==
    /\ app.last = [step |-> "detected", detectedCrops |-> <<>>]
    /\ Len(app.images) > 0
    /\ app.crops = <<>>
    /\ app.selectedCropId = null
    /\ app.activeHandle # <<>>

\* C26: the selected crop is null or the id of one of the crops, after every
\* upload, added, deleted, selected and edited crop and after every
\* detection, a drag being in progress or not; and after Delete the
\* selection is the first of the crops that remain, or null when none does.
SessionCropIds == { app.crops[k].id : k \in DOMAIN app.crops }

C26_SelectionIsACrop ==
    /\ app.selectedCropId = null \/ app.selectedCropId \in SessionCropIds
    /\ app.last.step = "deleted" =>
           app.selectedCropId = IF Len(app.crops) > 0 THEN app.crops[1].id ELSE null

\* A detection has ended while a crop that is no longer there was dragged.
C26_Witness ==
    /\ app.last.step = "detected"
    /\ app.activeHandle # <<>>
    /\ app.startPos # Missing
    /\ app.startPos.crop.id \notin SessionCropIds
    /\ Len(app.crops) = 2
    /\ app.selectedCropId = app.crops[1].id

\* C28: with images, the selected image is one of them, however uploads,
\* selections of a thumbnail and background removals interleave.
C28_SelectedImageIsAnImage ==
    Len(app.images) > 0 => \E k \in DOMAIN app.images : app.images[k].id = app.selectedImageId

\* C29: at most one of the export, the detection and the removal runs: each
\* runs exactly while its flag is set, none begins while a flag is set, and
\* while one is set no crop is added or deleted by the buttons.
SessionRunning(a) == a.isLoading \/ a.isAutoCropping \/ a.isRemovingBackground

SessionFlags(a) ==
    (IF a.isLoading THEN 1 ELSE 0) + (IF a.isAutoCropping THEN 1 ELSE 0)
        + (IF a.isRemovingBackground THEN 1 ELSE 0)

C29_OneLongOperation ==
    /\ [](/\ SessionFlags(app) <= 1
          /\ app.isLoading <=> app.downloading # Missing
          /\ app.isAutoCropping <=> app.detecting # Missing
          /\ app.isRemovingBackground <=> app.removing # Missing
          /\ (SessionRunning(app) /\ Len(app.images) > 0) => isActionDisabled(app))
    /\ [][/\ SessionFlags(app') > SessionFlags(app) => ~SessionRunning(app)
          /\ (SessionRunning(app) /\ Len(app'.crops) # Len(app.crops))
                 => (SessionUploads \/ DetectionEnds("detected"))]_vars

\* A removal runs on images that an upload has replaced since it began.
C29_Witness ==
    /\ app.isRemovingBackground
    /\ app.removing # Missing
    /\ Len(app.images) > 0
    /\ app.removing.images # app.images
    /\ ~app.isLoading
    /\ ~app.isAutoCropping

====
